---- MODULE Spec2Model ----
(***************************************************************************)
(* Model of the video-translator API: the in-memory JobManager, the HTTP   *)
(* upload / download handlers with the background processVideoJob driver,  *)
(* the DatabaseProvider implementations and the ASS subtitle pipeline.     *)
(*                                                                         *)
(* An absent (undefined) JavaScript value is the string "none".            *)
(* Times are milliseconds, as returned by Date.now().                      *)
(***************************************************************************)
EXTENDS Integers, Sequences, FiniteSets, TLC

VARIABLES
    jobs,      \* JobManager.jobs: Map<string, Job>, a function id -> Job
    now,       \* the value Date.now() returns
    calls,     \* number of JobManager calls made so far (bounds the run)
    ticks,     \* number of clock advances made so far (bounds the run)
    last,      \* the last JobManager call: its name, id and the job before it
    dbType,    \* DB_TYPE: which DatabaseProvider the factory returned
    rows,      \* the provider's store (Map or jobs table), a function id -> Job
    dbCall,    \* per caller: the position of its updateJob call and its locals
    dbLast,    \* the last write the provider applied to its store
    req,       \* per POST /api/upload request: handler position, locals, response
    ass        \* one run of the ASS subtitle pipeline: its inputs and stage results

jmVars == <<jobs, calls, last>>
clockVars == <<now, ticks>>
dbVars == <<dbType, rows, dbCall, dbLast>>
srvVars == <<req>>
assVars == <<ass>>

vars == <<jmVars, clockVars, dbVars, srvVars, assVars>>

\* What the JobManager's operations leave alone.
NotJM == <<dbVars, srvVars, assVars>>
\* What the DatabaseProvider's operations leave alone.
NotDb == <<jmVars, srvVars, assVars>>

----------------------------------------------------------------------------
(* Bounds of the model *)

\* The clock advances at most this many times in a run.
MaxTicks == 2
\* Math.random() yields one of this many distinct 9-character suffixes.
MaxRand == 2
\* The caller makes at most this many JobManager calls in a run.
MaxCalls == 4

----------------------------------------------------------------------------
(* JobManager (src/src/test.js, class JobManager) *)

\* private maxJobs = 1000, scaled down to 2 so that a run can exceed it.
maxJobs == 2
\* private jobTTL = 3600000 (one hour in milliseconds).
jobTTL == 3600000

None == "none"

JobStatus == {"queued", "processing", "completed", "failed"}

Terminal == {"completed", "failed"}

\* Object.assign(job, updates): the fields named by updates replace the job's.
Assign(job, updates) ==
    [f \in DOMAIN job |-> IF f \in DOMAIN updates THEN updates[f] ELSE job[f]]

\* Math.min(100, Math.max(0, progress))
Clamp(progress) ==
    LET lo == IF progress > 0 THEN progress ELSE 0
    IN  IF lo < 100 THEN lo ELSE 100

\* `job_${Date.now()}_${Math.random().toString(36).substr(2, 9)}`: the id is
\* the pair of the clock value and the random suffix.
generateJobId(t, rnd) == <<t, rnd>>

\* The record createJob builds.
NewJob(id, t) ==
    [ id         |-> id,
      status     |-> "queued",
      progress   |-> 0,
      videoPath  |-> None,
      outputPath |-> None,
      previewPath|-> None,
      error      |-> None,
      stats      |-> None,
      createdAt  |-> t,
      updatedAt  |-> t ]

\* Map.set(id, job)
MapSet(m, id, job) ==
    [k \in DOMAIN m \cup {id} |-> IF k = id THEN job ELSE m[k]]

\* Map.delete over a set of ids
MapDelete(m, ids) == [k \in DOMAIN m \ ids |-> m[k]]

\* The jobs deleted at time t when the TTL itself counts as too old.
ExpiredFromTTL(m, t) == {id \in DOMAIN m : t - m[id].updatedAt >= jobTTL}

\* The jobs cleanupOldJobs deletes at time t.
Expired(m, t) == {id \in DOMAIN m : t - m[id].updatedAt > jobTTL}

\* cleanupOldJobs(): every job with now - updatedAt > jobTTL is deleted.
cleanupOldJobs(m, t) == MapDelete(m, Expired(m, t))

\* Every job taken for a terminal one.
TerminalIdsAll(m) == DOMAIN m

\* The terminal jobs, as enforceMaxJobs filters them.
TerminalIds(m) == {id \in DOMAIN m : m[id].status \in Terminal}

\* The sets of n terminal jobs a sort by ascending updatedAt can put first
\* (Array.prototype.sort is stable; ties keep Map insertion order, which the
\* model leaves open).
OldestTerminal(m, n) ==
    {S \in SUBSET TerminalIds(m) :
        /\ Cardinality(S) = n
        /\ \A a \in S : \A b \in TerminalIds(m) \ S :
              m[a].updatedAt <= m[b].updatedAt}

\* enforceMaxJobs(): the maps it may leave.
enforceMaxJobs(m) ==
    IF Cardinality(DOMAIN m) > maxJobs
    THEN LET toRemove == Cardinality(DOMAIN m) - maxJobs
             nTerm    == Cardinality(TerminalIds(m))
             n        == IF toRemove < nTerm THEN toRemove ELSE nTerm
         IN  {MapDelete(m, S) : S \in OldestTerminal(m, n)}
    ELSE {m}

\* updateJob(id, updates): merge, refresh updatedAt, no-op on an unknown id.
updateJob(m, id, updates, t) ==
    IF id \in DOMAIN m
    THEN MapSet(m, id, Assign(Assign(m[id], updates), [updatedAt |-> t]))
    ELSE m

setJobProcessing(m, id, t) ==
    updateJob(m, id, [status |-> "processing", progress |-> 10], t)

setJobCompleted(m, id, outputPath, previewPath, stats, t) ==
    updateJob(m, id,
        [ status |-> "completed", progress |-> 100, outputPath |-> outputPath,
          previewPath |-> previewPath, stats |-> stats ], t)

setJobFailed(m, id, error, t) ==
    updateJob(m, id, [status |-> "failed", progress |-> 0, error |-> error], t)

updateProgress(m, id, progress, t) ==
    updateJob(m, id, [progress |-> Clamp(progress)], t)

\* The value of Map.get for an id the map does not hold.
Undefined == [status |-> None]

\* getJob(id): the job, or Undefined.
getJob(m, id) == IF id \in DOMAIN m THEN m[id] ELSE Undefined

----------------------------------------------------------------------------
(* Inputs of the JobManager calls *)

RandomSuffixes == 0 .. (MaxRand - 1)

ProgressInputs == {-5, 5, 150}

UpdatePatches == {[videoPath |-> "uploads/video.mp4"]}

Call(op, id, m) == [op |-> op, id |-> id, pre |-> getJob(m, id)]

----------------------------------------------------------------------------
(* The JobManager under an arbitrary caller *)

\* new JobManager(): an empty map.
JMInit ==
    /\ jobs = << >>
    /\ calls = 0
    /\ last = [op |-> "none", id |-> None, pre |-> Undefined]

ClockInit ==
    /\ now = 0
    /\ ticks = 0

\* No DatabaseProvider call is made.
DbIdle ==
    /\ dbType = "memory"
    /\ rows = << >>
    /\ dbCall = << >>
    /\ dbLast = [op |-> "none"]

\* No HTTP request is made.
SrvIdle ==
    /\ req = << >>

\* No pipeline run is made.
AssIdle ==
    /\ ass = [pc |-> "idle"]

Init == JMInit /\ ClockInit /\ DbIdle /\ SrvIdle /\ AssIdle

\* createJob(targetLanguage, options)
CreateJob ==
    /\ calls < MaxCalls
    /\ \E rnd \in RandomSuffixes :
         LET id == generateJobId(now, rnd)
         IN  /\ jobs' \in enforceMaxJobs(MapSet(jobs, id, NewJob(id, now)))
             /\ last' = [removed |-> (DOMAIN jobs \cup {id}) \ DOMAIN jobs']
                         @@ Call("createJob", id, jobs)
    /\ calls' = calls + 1
    /\ UNCHANGED <<now, ticks, NotJM>>

UpdateJob ==
    /\ calls < MaxCalls
    /\ \E id \in DOMAIN jobs \cup {generateJobId(0, 0)} : \E u \in UpdatePatches :
         /\ jobs' = updateJob(jobs, id, u, now)
         /\ last' = Call("updateJob", id, jobs)
    /\ calls' = calls + 1
    /\ UNCHANGED <<now, ticks, NotJM>>

SetJobProcessing ==
    /\ calls < MaxCalls
    /\ \E id \in DOMAIN jobs :
         /\ jobs' = setJobProcessing(jobs, id, now)
         /\ last' = Call("setJobProcessing", id, jobs)
    /\ calls' = calls + 1
    /\ UNCHANGED <<now, ticks, NotJM>>

SetJobCompleted ==
    /\ calls < MaxCalls
    /\ \E id \in DOMAIN jobs :
         /\ jobs' = setJobCompleted(jobs, id, "out.mp4", "workDir", "stats", now)
         /\ last' = Call("setJobCompleted", id, jobs)
    /\ calls' = calls + 1
    /\ UNCHANGED <<now, ticks, NotJM>>

SetJobFailed ==
    /\ calls < MaxCalls
    /\ \E id \in DOMAIN jobs :
         /\ jobs' = setJobFailed(jobs, id, "boom", now)
         /\ last' = Call("setJobFailed", id, jobs)
    /\ calls' = calls + 1
    /\ UNCHANGED <<now, ticks, NotJM>>

UpdateProgress ==
    /\ calls < MaxCalls
    /\ \E id \in DOMAIN jobs : \E p \in ProgressInputs :
         /\ jobs' = updateProgress(jobs, id, p, now)
         /\ last' = Call("updateProgress", id, jobs)
    /\ calls' = calls + 1
    /\ UNCHANGED <<now, ticks, NotJM>>

\* The setInterval callback of the constructor.
CleanupOldJobs ==
    /\ Expired(jobs, now) # {}
    /\ jobs' = cleanupOldJobs(jobs, now)
    /\ last' = [op |-> "cleanupOldJobs", id |-> None, pre |-> Undefined,
                removed |-> DOMAIN jobs \ DOMAIN jobs']
    /\ UNCHANGED <<now, calls, ticks, NotJM>>

\* Time passes: one millisecond, or the whole TTL.
Tick ==
    /\ ticks < MaxTicks
    /\ \E d \in {1, jobTTL} : now' = now + d
    /\ ticks' = ticks + 1
    /\ UNCHANGED <<jmVars, dbVars, srvVars, assVars>>

Next ==
    \/ CreateJob
    \/ UpdateJob
    \/ SetJobProcessing
    \/ SetJobCompleted
    \/ SetJobFailed
    \/ UpdateProgress
    \/ CleanupOldJobs
    \/ Tick

Spec == Init /\ [][Next]_vars

\* The JobManager under callers that create jobs and move them through
\* their statuses, with the cleanup timer and the clock.
NextEvict ==
    \/ CreateJob
    \/ SetJobProcessing
    \/ SetJobCompleted
    \/ SetJobFailed
    \/ CleanupOldJobs
    \/ Tick

SpecEvict == Init /\ [][NextEvict]_vars

----------------------------------------------------------------------------
(* DatabaseProvider (src/src/database.ts): MemoryDatabase, PostgresDatabase
   and SQLiteDatabase under concurrent callers.  A caller's updateJob is an
   async function: it runs up to its next await in one step, and the steps
   of different callers interleave.  A Postgres query is executed by the
   server some time after it is issued; a better-sqlite3 statement is
   executed synchronously where it is called. *)

\* Concurrent callers of the provider.
NumCallers == 2

DbCallers == 1 .. NumCallers

DbTypes == {"memory", "postgres", "sqlite"}

DbIds == {"job_1", "job_2"}

\* The Partial<Job> arguments of updateJob.
DbPatches == {[progress |-> 50], [error |-> "boom"]}

\* JSON.parse(row.stats || '{}') of SQLiteDatabase.getJob: a NULL column is
\* read back as the empty object.
ParseOrEmpty(v) == IF v = None THEN "{}" ELSE v

\* getJob(id): the stored object itself (memory), or a fresh object built
\* from the row; Undefined stands for null.
DbGetJob(type, tbl, id) ==
    IF id \notin DOMAIN tbl THEN Undefined
    ELSE IF type = "sqlite"
         THEN [tbl[id] EXCEPT !.stats = ParseOrEmpty(tbl[id].stats)]
         ELSE tbl[id]

\* saveJob(job): Map.set of a copy (memory); INSERT ... ON CONFLICT (id) DO
\* UPDATE, which leaves created_at of an existing row alone (postgres);
\* INSERT OR REPLACE of the whole row (sqlite).
DbSaveJob(type, tbl, job) ==
    IF type = "postgres" /\ job.id \in DOMAIN tbl
    THEN MapSet(tbl, job.id, [job EXCEPT !.createdAt = tbl[job.id].createdAt])
    ELSE MapSet(tbl, job.id, job)

\* MemoryDatabase.updateJob: Object.assign(job, updates) on the stored object.
MemoryUpdateJob(tbl, id, updates) ==
    IF id \in DOMAIN tbl THEN MapSet(tbl, id, Assign(tbl[id], updates)) ELSE tbl

\* Postgres / SQLite updateJob after getJob returned job:
\* Object.assign(job, updates, { updatedAt: Date.now() }).
SqlAssign(job, updates, t) == Assign(Assign(job, updates), [updatedAt |-> t])

IdleCall == [pc |-> "idle", id |-> None, updates |-> << >>, job |-> Undefined, at |-> 0]

Write(op, c, id, at, found, changed) ==
    [op |-> op, caller |-> c, id |-> id, at |-> at, found |-> found, changed |-> changed]

DbInit ==
    /\ dbType \in DbTypes
    /\ rows = << >>
    /\ dbCall = [c \in DbCallers |-> IdleCall]
    /\ dbLast = [op |-> "none"]

InitDb == JMInit /\ ClockInit /\ DbInit /\ SrvIdle /\ AssIdle

\* saveJob(job) of a new job.
SaveJob ==
    /\ \E id \in DbIds \ DOMAIN rows :
         /\ rows' = DbSaveJob(dbType, rows, NewJob(id, now))
         /\ dbLast' = Write("saveJob", 0, id, now, FALSE, TRUE)
    /\ UNCHANGED <<dbType, dbCall, clockVars, NotDb>>

\* MemoryDatabase.updateJob(id, updates): no await, the whole body is one step.
MemoryUpdate(c) ==
    /\ dbType = "memory"
    /\ dbCall[c].pc = "idle"
    /\ \E id \in DbIds : \E u \in DbPatches :
         /\ rows' = MemoryUpdateJob(rows, id, u)
         /\ dbCall' = [dbCall EXCEPT ![c] =
                [pc |-> "done", id |-> id, updates |-> u,
                 job |-> DbGetJob(dbType, rows, id), at |-> now]]
         /\ dbLast' = Write("updateJob", c, id, now, id \in DOMAIN rows, rows' # rows)
    /\ UNCHANGED <<dbType, clockVars, NotDb>>

\* PostgresDatabase.updateJob(id, updates) up to `await this.getJob(id)`:
\* the SELECT is issued.
PostgresUpdate(c) ==
    /\ dbType = "postgres"
    /\ dbCall[c].pc = "idle"
    /\ \E id \in DbIds : \E u \in DbPatches :
         dbCall' = [dbCall EXCEPT ![c] =
                [pc |-> "select", id |-> id, updates |-> u, job |-> Undefined, at |-> 0]]
    /\ UNCHANGED <<dbType, rows, dbLast, clockVars, NotDb>>

\* The server executes the SELECT of getJob.
PostgresSelect(c) ==
    /\ dbType = "postgres"
    /\ dbCall[c].pc = "select"
    /\ dbCall' = [dbCall EXCEPT ![c].pc = "selected",
                                ![c].job = DbGetJob(dbType, rows, dbCall[c].id)]
    /\ UNCHANGED <<dbType, rows, dbLast, clockVars, NotDb>>

\* SQLiteDatabase.updateJob(id, updates) up to `await this.getJob(id)`:
\* getJob has run its SELECT synchronously.
SqliteUpdate(c) ==
    /\ dbType = "sqlite"
    /\ dbCall[c].pc = "idle"
    /\ \E id \in DbIds : \E u \in DbPatches :
         dbCall' = [dbCall EXCEPT ![c] =
                [pc |-> "selected", id |-> id, updates |-> u,
                 job |-> DbGetJob(dbType, rows, id), at |-> 0]]
    /\ UNCHANGED <<dbType, rows, dbLast, clockVars, NotDb>>

\* The continuation after `await this.getJob(id)`: return if the job is null,
\* else Object.assign and saveJob.  Postgres issues the upsert; SQLite runs
\* the INSERT OR REPLACE at once.
UpdateContinue(c) ==
    /\ dbCall[c].pc = "selected"
    /\ LET call == dbCall[c]
           job  == SqlAssign(call.job, call.updates, now)
       IN  IF call.job = Undefined
           THEN /\ dbCall' = [dbCall EXCEPT ![c].pc = "done", ![c].at = now]
                /\ dbLast' = Write("updateJob", c, call.id, now, FALSE, FALSE)
                /\ UNCHANGED rows
           ELSE IF dbType = "sqlite"
           THEN /\ rows' = DbSaveJob(dbType, rows, job)
                /\ dbCall' = [dbCall EXCEPT ![c].pc = "done", ![c].job = job, ![c].at = now]
                /\ dbLast' = Write("updateJob", c, call.id, now, TRUE, rows' # rows)
           ELSE /\ dbCall' = [dbCall EXCEPT ![c].pc = "save", ![c].job = job, ![c].at = now]
                /\ UNCHANGED <<rows, dbLast>>
    /\ UNCHANGED <<dbType, clockVars, NotDb>>

\* The server executes the upsert of saveJob.
PostgresSave(c) ==
    /\ dbType = "postgres"
    /\ dbCall[c].pc = "save"
    /\ rows' = DbSaveJob(dbType, rows, dbCall[c].job)
    /\ dbCall' = [dbCall EXCEPT ![c].pc = "done"]
    /\ dbLast' = Write("updateJob", c, dbCall[c].id, dbCall[c].at, TRUE, rows' # rows)
    /\ UNCHANGED <<dbType, clockVars, NotDb>>

NextDb ==
    \/ SaveJob
    \/ \E c \in DbCallers : MemoryUpdate(c)
    \/ \E c \in DbCallers : PostgresUpdate(c)
    \/ \E c \in DbCallers : PostgresSelect(c)
    \/ \E c \in DbCallers : SqliteUpdate(c)
    \/ \E c \in DbCallers : UpdateContinue(c)
    \/ \E c \in DbCallers : PostgresSave(c)
    \/ Tick

SpecDb == InitDb /\ [][NextDb]_vars

----------------------------------------------------------------------------
(* The HTTP API (src/unnamed/part_005): POST /api/upload, the background
   processVideoJob, GET /api/download/:jobId, over the JobManager above.
   Node runs each handler up to its next await in one step; the steps of
   different requests, the cleanup timer and the clock interleave. *)

\* Concurrent POST /api/upload requests.
NumUploads == 2

Uploads == 1 .. NumUploads

\* What a request carries: a form that fails validation before the job is
\* created; a file of a wrong type, too large, failing to be written, or
\* good; a URL whose download fails or succeeds.
Kinds ==
    {"invalid", "fileBadType", "fileTooLarge", "fileWriteError", "fileOk",
     "urlFail", "urlOk"}

\* The collaborator calls translateVideoAss awaits, in order; each can
\* reject.  (The mkdir and getVideoDuration awaits go with extractFrames, the
\* final fs.stat with overlaySubtitlesBottomCenter.)
Stages ==
    << "extractFrames", "detectTextInFrames", "translateTexts",
       "overlaySubtitlesBottomCenter" >>

NoId == << >>

NoResponse == [code |-> 0, status |-> None]

NewRequest ==
    [ pc |-> "new", kind |-> None, jobId |-> NoId, stage |-> 0, err |-> None,
      resp |-> NoResponse, objStatus |-> None,
      final |-> [status |-> None, error |-> None] ]

\* The Job object createJob allocates for request r.  `ref` is the identity
\* of the object: the handler's local `job` keeps pointing at it when the
\* map entry is deleted or replaced.
ServerJob(r, id, t) == [ref |-> r] @@ NewJob(id, t)

\* Whether the map still holds the object request r created.
Attached(m, rq, r) ==
    /\ rq[r].jobId \in DOMAIN m
    /\ m[rq[r].jobId].ref = r

\* objStatus of each request follows the status of its object while the map
\* holds it (every mutation goes through the map), and is frozen afterwards.
Sync(rq, m) ==
    [r \in DOMAIN rq |->
        IF Attached(m, rq, r)
        THEN [rq[r] EXCEPT !.objStatus = m[rq[r].jobId].status]
        ELSE rq[r]]

\* What GET /api/jobs/:id would show of job id.
Snapshot(m, id) ==
    IF id \in DOMAIN m
    THEN [status |-> m[id].status, error |-> m[id].error]
    ELSE [status |-> "not found", error |-> None]

SrvInit ==
    /\ req = [r \in Uploads |-> NewRequest]

InitServer == JMInit /\ ClockInit /\ DbIdle /\ SrvInit /\ AssIdle

\* POST /api/upload up to its first await after the form is parsed:
\* validation, createJob, the file type and size checks.
UploadStart(r) ==
    /\ req[r].pc = "new"
    /\ \E kind \in Kinds :
         IF kind = "invalid"
         THEN /\ req' = [req EXCEPT ![r].pc = "responded", ![r].kind = kind,
                                    ![r].resp = [code |-> 400, status |-> None]]
              /\ UNCHANGED jobs
         ELSE \E rnd \in RandomSuffixes :
                LET id == generateJobId(now, rnd)
                    rejected == kind \in {"fileBadType", "fileTooLarge"}
                    next == [req[r] EXCEPT
                               !.kind = kind, !.jobId = id,
                               !.pc = IF rejected THEN "responded"
                                      ELSE IF kind \in {"urlFail", "urlOk"}
                                           THEN "downloading" ELSE "writing",
                               !.resp = IF rejected
                                        THEN [code |-> 400, status |-> None]
                                        ELSE NoResponse]
                IN  /\ jobs' \in enforceMaxJobs(MapSet(jobs, id, ServerJob(r, id, now)))
                    /\ req' = Sync([req EXCEPT ![r] = next], jobs')
    /\ UNCHANGED <<calls, last, clockVars, dbVars, assVars>>

\* The handler after `await fs.writeFile` / `await downloadVideoFromUrl`:
\* the 500 of the outer catch, the 400 of the download catch, or updateJob,
\* the synchronous start of processVideoJob (setJobProcessing, then
\* translateVideoAss up to its first await) and the 202 response.
UploadSaved(r) ==
    /\ req[r].pc \in {"writing", "downloading"}
    /\ LET id == req[r].jobId
       IN  CASE req[r].kind = "fileWriteError" ->
                  /\ req' = [req EXCEPT ![r].pc = "responded",
                                        ![r].resp = [code |-> 500, status |-> None]]
                  /\ UNCHANGED jobs
             [] req[r].kind = "urlFail" ->
                  /\ jobs' = setJobFailed(jobs, id, "Failed to download video", now)
                  /\ req' = Sync([req EXCEPT ![r].pc = "responded",
                                             ![r].resp = [code |-> 400, status |-> None]],
                                 jobs')
             [] OTHER ->
                  /\ jobs' = setJobProcessing(
                                updateJob(jobs, id, [videoPath |-> "uploads/video.mp4"], now),
                                id, now)
                  /\ LET synced == Sync(req, jobs')
                     IN  req' = [synced EXCEPT
                                    ![r].pc = "running", ![r].stage = 1,
                                    ![r].resp = [code |-> 202,
                                                 status |-> synced[r].objStatus]]
    /\ UNCHANGED <<calls, last, clockVars, dbVars, assVars>>

\* One await of translateVideoAss, other than the last, resolves: the
\* pipeline moves on to its next stage.
StageResolves(r) ==
    /\ req[r].pc = "running"
    /\ req[r].stage < Len(Stages)
    /\ req' = [req EXCEPT ![r].stage = @ + 1]
    /\ UNCHANGED <<jmVars, clockVars, dbVars, assVars>>

\* The last await resolves: translateVideoAss returns its result and
\* processVideoJob calls setJobCompleted (promise continuations, run with no
\* timer or I/O callback in between).
ProcessResolved(r) ==
    /\ req[r].pc = "running"
    /\ req[r].stage = Len(Stages)
    /\ jobs' = setJobCompleted(jobs, req[r].jobId, "output_translated.mp4",
                               "workDir", "stats", now)
    /\ req' = Sync([req EXCEPT ![r].pc = "done",
                               ![r].final = Snapshot(jobs', req[r].jobId)], jobs')
    /\ UNCHANGED <<calls, last, clockVars, dbVars, assVars>>

\* The current await rejects: translateVideoAss rethrows, the catch of
\* processVideoJob calls setJobFailed and rethrows, and the .catch the upload
\* handler attached calls setJobFailed again (promise continuations, run with
\* no timer or I/O callback in between).
ProcessCatch(r) ==
    /\ req[r].pc = "running"
    /\ LET message == Stages[req[r].stage]
       IN  /\ jobs' = setJobFailed(setJobFailed(jobs, req[r].jobId, message, now),
                                   req[r].jobId, message, now)
           /\ req' = Sync([req EXCEPT ![r].pc = "done", ![r].err = message,
                                      ![r].final = Snapshot(jobs', req[r].jobId)],
                          jobs')
    /\ UNCHANGED <<calls, last, clockVars, dbVars, assVars>>

\* GET /api/download/:jobId, which changes no state: the status codes it can
\* answer with.  404 for an unknown job, 400 unless the job is completed with
\* an outputPath, else the file (200), or 404 when reading the file fails.
Download(m, id) ==
    LET job == getJob(m, id)
    IN  IF job = Undefined THEN {404}
        ELSE IF job.status # "completed" \/ job.outputPath = None THEN {400}
        ELSE {200, 404}

NextServer ==
    \/ \E r \in Uploads : UploadStart(r)
    \/ \E r \in Uploads : UploadSaved(r)
    \/ \E r \in Uploads : StageResolves(r)
    \/ \E r \in Uploads : ProcessResolved(r)
    \/ \E r \in Uploads : ProcessCatch(r)
    \/ CleanupOldJobs
    \/ Tick

SpecServer == InitServer /\ [][NextServer]_vars

----------------------------------------------------------------------------
(* The ASS subtitle pipeline: subtitleTranslator.ts and subtitleComposer.ts *)

\* A JavaScript string is the sequence of its characters, each character a
\* one-character string; a CJK character is named by its code point.
EmptyStr == << >>

\* The characters the regular expression class \s matches.
IsSpace(c) == c \in {" ", "\n", "\t"}

\* [㐀-鿿豈-﫿]: the ideographs normalizeCJKSpacing looks for.
HanChars == {"U+4F60", "U+597D"}

\* [぀-ヿ]: the kana, which isCJK matches as well.
KanaChars == {"U+3053"}

Max2(a, b) == IF a >= b THEN a ELSE b

Min2(a, b) == IF a <= b THEN a ELSE b

SetMax(S) == CHOOSE n \in S : \A k \in S : k <= n

SetMin(S) == CHOOSE n \in S : \A k \in S : n <= k

\* Math.round of the non-negative rational num / den.
RoundDiv(num, den) == (2 * num + den) \div (2 * den)

\* Math.ceil of the non-negative rational num / den.
CeilDiv(num, den) == (num + den - 1) \div den

\* String.prototype.trim
Trim(s) ==
    LET keep == {i \in 1 .. Len(s) : ~IsSpace(s[i])}
    IN  IF keep = {} THEN EmptyStr ELSE SubSeq(s, SetMin(keep), SetMax(keep))

\* s.replace(/\s+/g, '')
StripSpaces(s) == SelectSeq(s, LAMBDA c : ~IsSpace(c))

\* The index of the first character at or after i that is no white space,
\* Len(s) + 1 when there is none.
SkipSpaces(s, i) ==
    LET rest == {j \in i .. Len(s) : ~IsSpace(s[j])}
    IN  IF rest = {} THEN Len(s) + 1 ELSE SetMin(rest)

RECURSIVE SplitFrom(_, _, _)
SplitFrom(s, i, cur) ==
    IF i > Len(s) THEN <<cur>>
    ELSE IF IsSpace(s[i])
         THEN <<cur>> \o SplitFrom(s, SkipSpaces(s, i), EmptyStr)
         ELSE SplitFrom(s, i + 1, Append(cur, s[i]))

\* s.split(/\s+/): white space at either end leaves an empty first or
\* last token.
SplitSpaces(s) == SplitFrom(s, 1, EmptyStr)

\* s.split('')
SplitChars(s) == [i \in 1 .. Len(s) |-> <<s[i]>>]

\* array.filter(Boolean) on an array of strings
FilterBoolean(tokens) == SelectSeq(tokens, LAMBDA t : t # EmptyStr)

RECURSIVE Join(_, _)
\* Array.prototype.join
Join(tokens, sep) ==
    IF tokens = << >> THEN EmptyStr
    ELSE IF Len(tokens) = 1 THEN tokens[1]
    ELSE tokens[1] \o sep \o Join(Tail(tokens), sep)

\* array.slice(0, n)
Take(s, n) == SubSeq(s, 1, Min2(n, Len(s)))

\* array.slice(n)
Drop(s, n) == SubSeq(s, n + 1, Len(s))

\* Array.prototype.sort with the comparator a - b on the keys, key[i] being
\* the key of s[i].  The sort is stable: s[i] comes behind the elements of a
\* smaller key and those of the same key that stood before it.
SortByKey(s, key) ==
    LET rank(i) ==
            1 + Cardinality({j \in DOMAIN s :
                                \/ key[j] < key[i]
                                \/ key[j] = key[i] /\ j < i})
    IN  [p \in DOMAIN s |-> s[CHOOSE i \in DOMAIN s : rank(i) = p]]

\* normalizeCJKSpacing: white space between two ideographs is removed.
RECURSIVE NormalizeFrom(_, _)
NormalizeFrom(s, i) ==
    IF i > Len(s) THEN EmptyStr
    ELSE IF /\ s[i] \in HanChars
            /\ i < Len(s)
            /\ IsSpace(s[i + 1])
            /\ SkipSpaces(s, i + 1) <= Len(s)
            /\ s[SkipSpaces(s, i + 1)] \in HanChars
         THEN <<s[i]>> \o NormalizeFrom(s, SkipSpaces(s, i + 1))
         ELSE <<s[i]>> \o NormalizeFrom(s, i + 1)

normalizeCJKSpacing(s) ==
    IF \E i \in 1 .. Len(s) : s[i] \in HanChars
    THEN NormalizeFrom(s, 1)
    ELSE s

\* isCJK of subtitleComposer.ts
isCJK(s) == \E i \in 1 .. Len(s) : s[i] \in HanChars \cup KanaChars

\* An OCRBox; fontSize 0 is an absent fontSize.
OCRBox(text, x, y, width, height) ==
    [text |-> text, x |-> x, y |-> y, width |-> width, height |-> height,
     fontSize |-> 0]

\* The test that asks for the whole of the smaller height.
overlapsYWhole(a, b) ==
    Min2(a.y + a.height, b.y + b.height) - Max2(a.y, b.y)
        >= Max2(1, Min2(a.height, b.height))

\* The test that takes any vertical intersection at all.
overlapsYAny(a, b) ==
    Min2(a.y + a.height, b.y + b.height) - Max2(a.y, b.y) > 0

\* overlapsY: the vertical intersection is at least half the smaller height.
overlapsY(a, b) ==
    LET top == Max2(a.y, b.y)
        bottom == Max2(top, Min2(a.y + a.height, b.y + b.height))
        inter == bottom - top
        minH == Max2(1, Min2(a.height, b.height))
    IN  2 * inter >= minH

\* One step of the first-fit loop: t joins the first line whose span it
\* overlaps, and the span grows to cover it; otherwise t opens a line.
PlaceInLines(lines, t) ==
    LET hits == {k \in 1 .. Len(lines) : overlapsY(t, lines[k].span)}
    IN  IF hits = {}
        THEN Append(lines, [items |-> <<t>>,
                            span |-> [y |-> t.y, height |-> t.height]])
        ELSE LET k == SetMin(hits)
                 y1 == Min2(lines[k].span.y, t.y)
                 y2 == Max2(lines[k].span.y + lines[k].span.height,
                            t.y + t.height)
             IN  [lines EXCEPT ![k] =
                     [items |-> Append(@.items, t),
                      span |-> [y |-> y1, height |-> y2 - y1]]]

RECURSIVE PlaceAll(_, _)
\* The first-fit loop over the sorted boxes.
PlaceAll(lines, items) ==
    IF items = << >> THEN lines
    ELSE PlaceAll(PlaceInLines(lines, Head(items)), Tail(items))

\* The LineGroup of one line: its items left to right, their bounding box,
\* the largest font size and the texts joined by one space.
LineGroup(line) ==
    LET sorted == SortByKey(line.items, [i \in DOMAIN line.items |-> line.items[i].x])
        idx == 1 .. Len(sorted)
        minX == SetMin({sorted[i].x : i \in idx})
        minY == SetMin({sorted[i].y : i \in idx})
        maxX == SetMax({sorted[i].x + sorted[i].width : i \in idx})
        maxY == SetMax({sorted[i].y + sorted[i].height : i \in idx})
        size(i) == IF i.fontSize # 0 THEN i.fontSize
                   ELSE RoundDiv(8 * i.height, 10)
    IN  [text |-> Join([i \in idx |-> sorted[i].text], <<" ">>),
         x |-> minX, y |-> minY,
         width |-> maxX - minX, height |-> maxY - minY,
         fontSize |-> SetMax({size(sorted[i]) : i \in idx})]

\* The lines of groupTextsIntoLines: the boxes sorted by (y, x), which a
\* stable sort by x followed by a stable sort by y yields, then placed
\* first-fit into lines.
lineItems(frame) ==
    LET byX == SortByKey(frame.texts,
                         [i \in DOMAIN frame.texts |-> frame.texts[i].x])
        items == SortByKey(byX, [i \in DOMAIN byX |-> byX[i].y])
    IN  PlaceAll(<< >>, items)

groupTextsIntoLines(frame) ==
    LET lines == lineItems(frame)
    IN  [frameNumber |-> frame.frameNumber,
         texts |-> [k \in 1 .. Len(lines) |-> LineGroup(lines[k])]]

\* Number(v) of a variable set to a decimal numeral.
Number(v) == CHOOSE n \in 0 .. 1000 : ToString(n) = v

\* The filter's settings as filterSubtitleLike reads them from the
\* environment, whose values are strings: an unset variable (None) takes the
\* default, a set one is clamped.  regionFrac is held in percent.
FilterConfig(env) ==
    [region |-> IF env.region = None THEN "bottom" ELSE env.region,
     regionFrac |-> IF env.regionFrac = None THEN 50
                    ELSE Min2(100, Max2(5, Number(env.regionFrac))),
     minChars |-> Max2(1, IF env.minChars = None THEN 6
                          ELSE Number(env.minChars)),
     minWords |-> Max2(1, IF env.minWords = None THEN 2
                          ELSE Number(env.minWords)),
     minAspect |-> Max2(1, IF env.minAspect = None THEN 3
                           ELSE Number(env.minAspect)),
     maxLinesPerFrame |-> Max2(1, IF env.maxLinesPerFrame = None THEN 2
                                  ELSE Number(env.maxLinesPerFrame)),
     requirePersistence |->
         (IF env.requirePersistence = None THEN "1"
          ELSE env.requirePersistence) # "0"]

\* estFrameHeight: the largest bottom edge seen in the frame plus 10.
estFrameHeight(frame) ==
    Max2(1, SetMax({0} \cup {frame.texts[i].y + frame.texts[i].height :
                                 i \in DOMAIN frame.texts}) + 10)

\* The band [regionStart, regionEnd], in units of 1/200 pixel.
regionStart(c, h) ==
    CASE c.region = "bottom" -> 2 * h * (100 - c.regionFrac)
      [] c.region = "middle" -> Max2(0, h * 100 - h * c.regionFrac)
      [] OTHER -> 0

regionEnd(c, h) ==
    CASE c.region = "top" -> 2 * h * c.regionFrac
      [] c.region = "middle" -> Min2(200 * h, h * 100 + h * c.regionFrac)
      [] OTHER -> 200 * h

wordCount(t) == Len(FilterBoolean(SplitSpaces(Trim(t.text))))

charCount(t) == Len(StripSpaces(t.text))

inRegion(t, c, h) ==
    LET lineMidY == 200 * t.y + 100 * t.height
    IN  lineMidY >= regionStart(c, h) /\ lineMidY <= regionEnd(c, h)

\* The text test with the minimums of 1 that src/src/index.ts defaults to.
passesTextMinimumOne(t, c) == charCount(t) >= 1 /\ wordCount(t) >= 1

passesText(t, c) == charCount(t) >= c.minChars /\ wordCount(t) >= c.minWords

passesAspect(t, c) ==
    (IF t.width = 0 THEN 1 ELSE t.width) >= c.minAspect * Max2(1, t.height)

\* The per-frame pass with the comparator a.width - b.width.
prelimFrameNarrowestFirst(frame, c) ==
    LET h == estFrameHeight(frame)
        filtered == SelectSeq(frame.texts,
                        LAMBDA t : inRegion(t, c, h) /\ passesText(t, c)
                                   /\ passesAspect(t, c))
        sorted == SortByKey(filtered,
                           [i \in DOMAIN filtered |-> filtered[i].width])
    IN  [frame EXCEPT !.texts = Take(sorted, c.maxLinesPerFrame)]

\* The per-frame pass: the lines that pass the three tests, widest first,
\* cut to maxLinesPerFrame.
prelimFrame(frame, c) ==
    LET h == estFrameHeight(frame)
        filtered == SelectSeq(frame.texts,
                        LAMBDA t : inRegion(t, c, h) /\ passesText(t, c)
                                   /\ passesAspect(t, c))
        sorted == SortByKey(filtered,
                           [i \in DOMAIN filtered |-> 0 - filtered[i].width])
    IN  [frame EXCEPT !.texts = Take(sorted, c.maxLinesPerFrame)]

RECURSIVE occurrencesFrom(_, _, _)
\* The frame numbers pushed for the text by the frames from the i-th on:
\* one per line of the frame that carries the text.
occurrencesFrom(prelim, text, i) ==
    IF i > Len(prelim) THEN << >>
    ELSE [k \in 1 .. Len(SelectSeq(prelim[i].texts,
                                    LAMBDA t : t.text = text))
             |-> prelim[i].frameNumber]
         \o occurrencesFrom(prelim, text, i + 1)

\* occurrences.get(text): the numbers of the frames that show the text, in
\* the order they were pushed.
occurrences(prelim, text) == occurrencesFrom(prelim, text, 1)

\* The phrases of a list of frames.
phrases(frames) ==
    UNION {{frames[i].texts[k].text : k \in DOMAIN frames[i].texts} :
              i \in DOMAIN frames}

\* keepTexts with the test "seen at least twice" for "seen in two frames in
\* a row".
keepTextsSeenTwice(prelim) ==
    {text \in phrases(prelim) \ {EmptyStr} : Len(occurrences(prelim, text)) >= 2}

\* keepTexts: the non-empty texts whose sorted frame numbers hold some n
\* directly followed by n + 1.
keepTexts(prelim) ==
    {text \in phrases(prelim) \ {EmptyStr} :
        LET occ == occurrences(prelim, text)
            sorted == SortByKey(occ, occ)
        IN  \E i \in 2 .. Len(sorted) : sorted[i] = sorted[i - 1] + 1}

filterSubtitleLike(frames, env) ==
    LET c == FilterConfig(env)
        prelim == [i \in DOMAIN frames |-> prelimFrame(frames[i], c)]
        keep == keepTexts(prelim)
    IN  IF ~c.requirePersistence THEN prelim
        ELSE [i \in DOMAIN prelim |->
                 [prelim[i] EXCEPT !.texts =
                     SelectSeq(@, LAMBDA t : t.text \in keep)]]

\* A property name every object parsed from JSON inherits from
\* Object.prototype, and the function it names, which is no string.
CONSTRUCTOR == <<"c", "o", "n", "s", "t", "r", "u", "c", "t", "o", "r">>

ObjectPrototypeKeys == {CONSTRUCTOR}

InheritedValue == <<"function Object() { [native code] }">>

\* t in obj: an own or an inherited property.
In(t, obj) == t \in DOMAIN obj \/ t \in ObjectPrototypeKeys

\* obj[t]: the own property, else the inherited one, else undefined, which
\* is as falsy as the empty string.
Get(obj, t) ==
    IF t \in DOMAIN obj THEN obj[t]
    ELSE IF t \in ObjectPrototypeKeys THEN InheritedValue
    ELSE EmptyStr

\* translateTexts: the object parsed from the provider's answer, in which
\* every phrase that is not in it, or is falsy in it, is set to stand for
\* itself; no phrases, no call and an empty object.
translateTexts(texts, answer) ==
    LET fill == {t \in texts : ~In(t, answer) \/ Get(answer, t) = EmptyStr}
    IN  IF texts = {} THEN << >>
        ELSE [t \in DOMAIN answer \cup fill |->
                 IF t \in fill THEN t ELSE answer[t]]

\* Step 5 of translateVideoAss: translationMap[text] || text, normalised.
translatedText(map, text) ==
    normalizeCJKSpacing(IF Get(map, text) # EmptyStr THEN Get(map, text) ELSE text)

applyTranslations(frames, map) ==
    [i \in DOMAIN frames |->
        [frames[i] EXCEPT !.texts =
            [k \in DOMAIN @ |->
                [translatedText |-> translatedText(map, @[k].text)]
                    @@ @[k]]]]

\* Defaults of subtitleComposer.ts; the width factors are held in percent.
ASS_BASE_FONTSIZE == 44

ASS_BOX_PAD == 10

LATIN_WIDTH_FACTOR == 62

CJK_WIDTH_FACTOR == 90

\* perFrame: the frame's trimmed, non-empty translations joined by a space.
perFrame(frame) ==
    LET parts == FilterBoolean(
                     [k \in DOMAIN frame.texts |->
                         Trim(frame.texts[k].translatedText)])
    IN  [frameNumber |-> frame.frameNumber, text |-> Join(parts, <<" ">>)]

\* decided: a text estimated wider than 90% of the video width less the
\* padding is cut into two lines, by character for CJK, by word otherwise.
decide(pf, vW, forceOneLine) ==
    LET s == pf.text
        cjk == isCJK(s)
        factor == IF cjk THEN CJK_WIDTH_FACTOR ELSE LATIN_WIDTH_FACTOR
        maxWidth == (9 * vW) \div 10 - ASS_BOX_PAD * 2
        tooWide == Len(s) * factor * ASS_BASE_FONTSIZE > maxWidth * 100
        tokens == IF cjk THEN SplitChars(s) ELSE SplitSpaces(s)
        half == CeilDiv(Len(tokens), 2)
        sep == IF cjk THEN EmptyStr ELSE <<" ">>
        out == IF ~forceOneLine /\ tooWide
               THEN Join(Take(tokens, half), sep) \o <<"\n">>
                        \o Join(Drop(tokens, half), sep)
               ELSE s
    IN  [frameNumber |-> pf.frameNumber,
         text |-> IF s = EmptyStr THEN EmptyStr ELSE out]

\* The loop body without the comparison: every frame opens an event.
MergeStepAlwaysOpens(events, f) ==
    Append(events, [text |-> f.text, start |-> f.frameNumber - 1,
                    end |-> f.frameNumber])

\* The loop body that compares but leaves the end of the event alone.
MergeStepKeepsEnd(events, f) ==
    IF Len(events) > 0 /\ events[Len(events)].text = f.text
    THEN events
    ELSE Append(events, [text |-> f.text, start |-> f.frameNumber - 1,
                         end |-> f.frameNumber])

\* One step of mergeFrameTexts at 1 fps: a frame with the text of the event
\* under way extends it, any other text opens the next event.  Times are
\* seconds.
MergeStep(events, f) ==
    LET startSec == f.frameNumber - 1
        endSec == f.frameNumber
        n == Len(events)
    IN  IF n > 0 /\ events[n].text = f.text
        THEN [events EXCEPT ![n].end = endSec]
        ELSE Append(events, [text |-> f.text, start |-> startSec,
                             end |-> endSec])

mergeFrameTexts(frames) ==
    LET merged[i \in 0 .. Len(frames)] ==
            IF i = 0 THEN << >> ELSE MergeStep(merged[i - 1], frames[i])
    IN  merged[Len(frames)]

\* assTime: seconds to h:mm:ss.cc, the four fields of the printed time.
assTime(sec) ==
    LET cs == Max2(0, sec * 100)
    IN  [h |-> cs \div 360000,
         m |-> (cs % 360000) \div 6000,
         s |-> (cs % 6000) \div 100,
         c |-> cs % 100]

RECURSIVE escAss(_)
escAss(s) ==
    IF s = EmptyStr THEN EmptyStr
    ELSE (CASE Head(s) = "{" -> <<"(">>
            [] Head(s) = "}" -> <<")">>
            [] Head(s) = "\n" -> <<"\\", "N">>
            [] OTHER -> <<Head(s)>>) \o escAss(Tail(s))

\* The Dialogue events overlaySubtitlesBottomCenter writes: one per merged
\* event with a text.
overlaySubtitlesBottomCenter(translatedFrames, vW, forceOneLine) ==
    LET decided == [i \in DOMAIN translatedFrames |->
                       decide(perFrame(translatedFrames[i]), vW, forceOneLine)]
        merged == SelectSeq(mergeFrameTexts(decided),
                            LAMBDA ev : ev.text # EmptyStr)
    IN  [i \in DOMAIN merged |->
            [start |-> assTime(merged[i].start),
             end |-> assTime(merged[i].end),
             text |-> escAss(merged[i].text)]]

\* Inputs of a pipeline run.
MaxFrames == 2

HELLO == <<"H", "E", "L", "L", "O">>

BONJOUR == <<"B", "O", "N", "J", "O", "U", "R">>

GOOD == <<"G", "O", "O", "D">>

MORNING == <<"M", "O", "R", "N", "I", "N", "G">>

LOGO == <<"L", "O", "G", "O">>

NIHAO == <<"U+4F60", " ", "U+597D">>

HelloBox == OCRBox(HELLO, 10, 500, 100, 30)

GoodBox == OCRBox(GOOD, 10, 500, 120, 30)

MorningBox == OCRBox(MORNING, 140, 504, 200, 30)

LogoBox == OCRBox(LOGO, 10, 20, 60, 30)

\* What OCR may return for one frame.
FrameTexts ==
    {<< >>, <<HelloBox>>, <<MorningBox, GoodBox>>, <<HelloBox, LogoBox>>}

\* The frames that reach OCR: numbered in steps of one from 1, or from 3
\* when SKIP_INTRO_SECONDS is 2.
Detections ==
    UNION {{[i \in 1 .. n |-> [frameNumber |-> first + i - 1, texts |-> f[i]]] :
               f \in [1 .. n -> FrameTexts], first \in {1, 3}} :
           n \in 1 .. MaxFrames}

DefaultEnv ==
    [region |-> None, regionFrac |-> None, minChars |-> None,
     minWords |-> None, minAspect |-> None, maxLinesPerFrame |-> None,
     requirePersistence |-> None]

\* The environments a run is started in.
Envs ==
    {[DefaultEnv EXCEPT !.minChars = mc, !.minWords = mw,
                        !.requirePersistence = rp] :
        mc \in {None, "5"}, mw \in {None, "1"}, rp \in {None, "0"}}

\* What the translation provider answers.
French == (HELLO :> BONJOUR)

Mixed == (HELLO :> NIHAO) @@ (GOOD \o <<" ">> \o MORNING :> BONJOUR)

Answers == {<< >>, French, Mixed}

\* The width ffprobe reports for the video.
Widths == {1280, 320}

AssInit ==
    ass \in [pc : {"detected"}, detections : Detections, env : Envs,
             answer : Answers, vW : Widths]

InitAss == JMInit /\ ClockInit /\ DbIdle /\ SrvIdle /\ AssInit

NotAss == <<jmVars, clockVars, dbVars, srvVars>>

\* Step 3 of translateVideoAss, first half: detections.map(groupTextsIntoLines)
GroupLines ==
    /\ ass.pc = "detected"
    /\ ass' = [pc |-> "grouped",
               groupedFrames |-> [i \in DOMAIN ass.detections |->
                                     groupTextsIntoLines(ass.detections[i])]]
              @@ ass
    /\ UNCHANGED NotAss

\* Step 3, second half: filterSubtitleLike(groupedFrames)
FilterLines ==
    /\ ass.pc = "grouped"
    /\ ass' = [pc |-> "filtered",
               subtitleFrames |-> filterSubtitleLike(ass.groupedFrames, ass.env)]
              @@ ass
    /\ UNCHANGED NotAss

\* translateTexts reaching its provider whatever the phrases.
callsProviderAlways(texts) == TRUE

\* Whether translateTexts gets as far as its provider: not with no phrases.
callsProvider(texts) == texts # {}

\* Steps 4 and 5: translateTexts on the unique phrases, then the map applied.
\* A provider that is called may fail, which ends translateVideoAss.
Translate ==
    /\ ass.pc = "filtered"
    /\ LET texts == phrases(ass.subtitleFrames)
           called == callsProvider(texts)
           map == translateTexts(texts, ass.answer)
       IN  \E ok \in IF called THEN BOOLEAN ELSE {TRUE} :
             ass' = IF ok
                    THEN [pc |-> "translated",
                          providerCalls |-> IF called THEN 1 ELSE 0,
                          rendererCalls |-> 0,
                          translatedFrames |->
                              applyTranslations(ass.subtitleFrames, map)] @@ ass
                    ELSE [pc |-> "failed", providerCalls |-> 1,
                          rendererCalls |-> 0, failedAt |-> "translateTexts"]
                         @@ ass
    /\ UNCHANGED NotAss

\* Step 6: overlaySubtitlesBottomCenter with the default options: the events
\* are written to the ASS file and ffmpeg is run on it, and once more with
\* the other codec when the first run fails; translateVideoAss returns when
\* a run ends, and throws when both fail.
Overlay ==
    /\ ass.pc = "translated"
    /\ \E runs \in {<<TRUE>>, <<FALSE, TRUE>>, <<FALSE, FALSE>>} :
         LET ok == runs[Len(runs)]
         IN  ass' = [pc |-> IF ok THEN "done" ELSE "failed",
                     failedAt |-> IF ok THEN None
                                  ELSE "overlaySubtitlesBottomCenter",
                     rendererCalls |-> Len(runs),
                     events |-> overlaySubtitlesBottomCenter(
                                    ass.translatedFrames, ass.vW, FALSE)]
                    @@ ass
    /\ UNCHANGED NotAss

NextAss ==
    \/ GroupLines
    \/ FilterLines
    \/ Translate
    \/ Overlay

SpecAss == InitAss /\ [][NextAss]_vars

----------------------------------------------------------------------------
(* overlaySubtitlesBottomCenter and mergeFrameTexts under inputs of their own *)

\* The longest list of translated frames handed to the overlay.
MaxRun == 3

\* The largest frame number handed to mergeFrameTexts.
MaxFrameNumber == 4

GOOD_MORNING == GOOD \o <<" ">> \o MORNING

\* The texts of one translated frame: none, one line, a line that is white
\* space only, a line with white space around it, a line too wide for a
\* narrow video, two lines.
TranslatedTexts ==
    {<< >>,
     <<[translatedText |-> HELLO]>>,
     <<[translatedText |-> <<" ">>]>>,
     <<[translatedText |-> <<" ">> \o HELLO \o <<" ">>]>>,
     <<[translatedText |-> BONJOUR]>>,
     <<[translatedText |-> GOOD_MORNING]>>,
     <<[translatedText |-> GOOD], [translatedText |-> MORNING]>>}

\* Translated frames numbered in steps of one.
TranslatedFrames ==
    UNION {{[i \in 1 .. n |-> [frameNumber |-> first + i - 1, texts |-> f[i]]] :
               f \in [1 .. n -> TranslatedTexts], first \in {1, 3}} :
           n \in 1 .. MaxRun}

OverlayInit ==
    ass \in [pc : {"translated"}, translatedFrames : TranslatedFrames,
             vW : Widths]

InitOverlay == JMInit /\ ClockInit /\ DbIdle /\ SrvIdle /\ OverlayInit

NextOverlay == Overlay

SpecOverlay == InitOverlay /\ [][NextOverlay]_vars

\* The frames handed to mergeFrameTexts: any frame numbers in increasing
\* order, each with an empty or a non-empty text.
NthOf(N, i) == CHOOSE k \in N : Cardinality({j \in N : j < k}) = i - 1

FramesOn(N) ==
    {[i \in 1 .. Cardinality(N) |->
         [frameNumber |-> NthOf(N, i), text |-> t[NthOf(N, i)]]] :
     t \in [N -> {EmptyStr, HELLO, BONJOUR}]}

DecidedFrames ==
    UNION {FramesOn(N) : N \in SUBSET (1 .. MaxFrameNumber) \ {{}}}

MergeInit ==
    ass \in [pc : {"decided"}, decided : DecidedFrames]

InitMerge == JMInit /\ ClockInit /\ DbIdle /\ SrvIdle /\ MergeInit

\* const merged = mergeFrameTexts(decided, 1)
MergeFrames ==
    /\ ass.pc = "decided"
    /\ ass' = [pc |-> "merged", merged |-> mergeFrameTexts(ass.decided)] @@ ass
    /\ UNCHANGED NotAss

NextMerge == MergeFrames

SpecMerge == InitMerge /\ [][NextMerge]_vars

----------------------------------------------------------------------------
(* groupTextsIntoLines under inputs of its own *)

\* The most boxes OCR returns for the frame.
MaxBoxes == 3

\* The text of the i-th box: one letter, so that the text of a LineGroup
\* tells its boxes.
Letters == <<"a", "b", "c", "d", "e">>

\* The boxes of a frame, in any order of positions and heights.
BoxYs == 0 .. 3

BoxHeights == {1, 2, 4}

BoxXs == {0, 10}

BoxPlaces == BoxXs \X BoxYs \X BoxHeights

\* The boxes placed as g tells: box i at x g[i][1], y g[i][2], with height
\* g[i][3].
BoxList(g) ==
    [i \in DOMAIN g |-> OCRBox(<<Letters[i]>>, g[i][1], g[i][2], 8, g[i][3])]

GroupInit ==
    \E n \in 1 .. MaxBoxes : \E g \in [1 .. n -> BoxPlaces] :
        ass = [pc |-> "detected",
               detections |-> <<[frameNumber |-> 1, texts |-> BoxList(g)]>>]

InitGroup == JMInit /\ ClockInit /\ DbIdle /\ SrvIdle /\ GroupInit

NextGroup == GroupLines

SpecGroup == InitGroup /\ [][NextGroup]_vars

----------------------------------------------------------------------------
(* filterSubtitleLike under inputs of its own *)

\* How many frame numbers, from 3 on, the grouped frames are drawn from.
MaxFilterFrames == 3

FilterFrameNumbers == 3 .. (2 + MaxFilterFrames)

HelloLine == LineGroup([items |-> <<HelloBox>>])

MorningLine == LineGroup([items |-> <<GoodBox, MorningBox>>])

LogoLine == LineGroup([items |-> <<LogoBox>>])

\* A short line above the line of MorningLine and one below it.
UpperHelloLine == LineGroup([items |-> <<OCRBox(HELLO, 10, 460, 100, 30)>>])

LowBonjourLine == LineGroup([items |-> <<OCRBox(BONJOUR, 10, 540, 150, 30)>>])

\* The lines of one grouped frame, from the top of the frame down.
GroupedTexts ==
    {<< >>, <<HelloLine>>, <<MorningLine>>, <<MorningLine, HelloLine>>,
     <<LogoLine, MorningLine>>, <<HelloLine, HelloLine>>,
     <<UpperHelloLine, MorningLine>>,
     <<UpperHelloLine, MorningLine, LowBonjourLine>>}

\* Grouped frames on the frame numbers N, in increasing order.
GroupedOn(N, t) ==
    [i \in 1 .. Cardinality(N) |->
        [frameNumber |-> NthOf(N, i), texts |-> t[NthOf(N, i)]]]

FilterInit ==
    \E N \in SUBSET FilterFrameNumbers \ {{}} : \E t \in [N -> GroupedTexts] :
        \E env \in Envs :
            ass = [pc |-> "grouped", groupedFrames |-> GroupedOn(N, t),
                   env |-> env]

InitFilter == JMInit /\ ClockInit /\ DbIdle /\ SrvIdle /\ FilterInit

NextFilter == FilterLines

SpecFilter == InitFilter /\ [][NextFilter]_vars

----------------------------------------------------------------------------
(* layoutForText of the drawtext composer (videoComposer) *)

BOX_PADDING == 6

\* How many words a text to lay out has at most.
MaxWords == 3

RECURSIVE WrapFrom(_, _, _, _, _, _)
\* The loop of wrapTextForBox from the i-th token on: a token that would
\* make the line longer than maxPerLine closes the line, unless the line is
\* empty.
WrapFrom(tokens, i, lines, line, cjk, maxPerLine) ==
    IF i > Len(tokens)
    THEN IF line # EmptyStr THEN Append(lines, line) ELSE lines
    ELSE LET token == tokens[i]
             next == IF line # EmptyStr
                     THEN (IF cjk THEN line \o token
                           ELSE line \o <<" ">> \o token)
                     ELSE token
         IN  IF Len(next) > maxPerLine /\ line # EmptyStr
             THEN WrapFrom(tokens, i + 1, Append(lines, line), token, cjk,
                           maxPerLine)
             ELSE WrapFrom(tokens, i + 1, lines, next, cjk, maxPerLine)

\* wrapTextForBox: at most floor(width / (fontSize * factor)) characters a
\* line, broken between characters for CJK and between words otherwise.
wrapTextForBox(text, width, fontSize) ==
    LET cjk == isCJK(text)
        factor == IF cjk THEN CJK_WIDTH_FACTOR ELSE LATIN_WIDTH_FACTOR
        maxPerLine == Max2(1, (width * 100) \div (fontSize * factor))
        words == IF cjk THEN SplitChars(text) ELSE SplitSpaces(text)
    IN  IF text = EmptyStr \/ Len(text) <= maxPerLine THEN text
        ELSE Join(WrapFrom(words, 1, << >>, EmptyStr, cjk, maxPerLine),
                  <<"\n">>)

RECURSIVE SplitLinesFrom(_, _, _)
SplitLinesFrom(s, i, cur) ==
    IF i > Len(s) THEN <<cur>>
    ELSE IF s[i] = "\n"
         THEN <<cur>> \o SplitLinesFrom(s, i + 1, EmptyStr)
         ELSE SplitLinesFrom(s, i + 1, Append(cur, s[i]))

\* wrapped ? wrapped.split('\n') : ['']
SplitLines(s) == SplitLinesFrom(s, 1, EmptyStr)

\* layoutForText: the text wrapped at the given size; when the longest line
\* is estimated wider than the box less its padding, the size is cut to fit
\* that line, not below 12, and the text wrapped again at the new size.
layoutForText(textObj) ==
    LET original == textObj.translatedText
        isC == isCJK(original)
        factor == IF isC THEN CJK_WIDTH_FACTOR ELSE LATIN_WIDTH_FACTOR
        maxWidth == Max2(10, textObj.width - BOX_PADDING * 2)
        wrapped == wrapTextForBox(original, textObj.width, textObj.fontSize)
        lines == SplitLines(wrapped)
        longest == SetMax({Len(lines[k]) : k \in DOMAIN lines} \cup {1})
        shrink == longest * factor * textObj.fontSize > maxWidth * 100
        fitted == IF shrink
                  THEN Max2(12, (maxWidth * 100) \div (longest * factor))
                  ELSE textObj.fontSize
        rewrapped == IF shrink
                     THEN wrapTextForBox(original, textObj.width, fitted)
                     ELSE wrapped
    IN  [wrapped |-> rewrapped, lines |-> SplitLines(rewrapped),
         fitted |-> fitted, isC |-> isC]

\* Inputs of a layout.
TENCHARS == <<"A", "A", "A", "A", "A", "A", "A", "A", "A", "A">>

FIVEB == <<"B", "B", "B", "B", "B">>

FIVEC == <<"C", "C", "C", "C", "C">>

LayoutWords == {TENCHARS, FIVEB, FIVEC, <<"U+4F60", "U+597D">>}

LayoutTexts ==
    {Join(w, <<" ">>) : w \in UNION {[1 .. n -> LayoutWords] : n \in 1 .. MaxWords}}

BoxWidths == {100, 200}

FontSizes == {8, 12, 24, 44}

LayoutInit ==
    \E t \in LayoutTexts : \E w \in BoxWidths : \E s \in FontSizes :
        ass = [pc |-> "toLayout",
               textObj |-> [translatedText |-> t, width |-> w, fontSize |-> s]]

InitLayout == JMInit /\ ClockInit /\ DbIdle /\ SrvIdle /\ LayoutInit

\* layoutForText on a translated text and its box.
LayoutText ==
    /\ ass.pc = "toLayout"
    /\ ass' = [pc |-> "laidOut", layout |-> layoutForText(ass.textObj)] @@ ass
    /\ UNCHANGED NotAss

\* layoutForText on its own output: the wrapped text at the fitted size, in
\* the same box.
LayoutAgain ==
    /\ ass.pc = "laidOut"
    /\ ass' = [pc |-> "laidOutAgain",
               again |-> layoutForText(
                   [translatedText |-> ass.layout.wrapped,
                    width |-> ass.textObj.width,
                    fontSize |-> ass.layout.fitted])] @@ ass
    /\ UNCHANGED NotAss

NextLayout ==
    \/ LayoutText
    \/ LayoutAgain

SpecLayout == InitLayout /\ [][NextLayout]_vars

----------------------------------------------------------------------------
(* The colours of overlaySubtitlesBottomCenter *)

HexDigits ==
    {"0", "1", "2", "3", "4", "5", "6", "7", "8", "9",
     "a", "b", "c", "d", "e", "f", "A", "B", "C", "D", "E", "F"}

\* s.replace(/^#/, '')
StripHash(s) == IF s # EmptyStr /\ Head(s) = "#" THEN Tail(s) ELSE s

\* /^([0-9a-fA-F]{6}|[0-9a-fA-F]{8})$/.test(h)
IsHexColour(h) ==
    Len(h) \in {6, 8} /\ \A i \in 1 .. Len(h) : h[i] \in HexDigits

\* h.slice(from, to), from and to counted from 0
Slice(h, from, to) == SubSeq(h, from + 1, Min2(to, Len(h)))

\* a || b on strings: the empty string and undefined are both EmptyStr
OrElse(a, b) == IF a # EmptyStr THEN a ELSE b

\* hexToAss: #RRGGBB or #RRGGBBAA to &HAABBGGRR; a value that is no hex
\* colour is replaced by defaultHex without its leading #.
hexToAss(hex, defaultHex) ==
    LET given == Trim(StripHash(OrElse(hex, defaultHex)))
        h == IF IsHexColour(given) THEN given
             ELSE StripHash(OrElse(defaultHex, <<"0", "0", "0", "0", "0", "0">>))
        rr == Slice(h, 0, 2)
        gg == Slice(h, 2, 4)
        bb == Slice(h, 4, 6)
        aa == Slice(h, 6, 8)
    IN  IF Len(h) = 6 THEN <<"&", "H", "0", "0">> \o bb \o gg \o rr
        ELSE <<"&", "H">> \o aa \o bb \o gg \o rr

\* SUB_TEXT_ASS and SUB_BG_ASS, computed once from the environment.
SUB_TEXT_ASS(env) ==
    hexToAss(env.SUB_TEXT_COLOR, <<"F", "F", "F", "F", "F", "F">>)

SUB_BG_ASS(env) ==
    hexToAss(env.SUB_BG_COLOR, <<"0", "0", "0", "0", "0", "0", "8", "0">>)

\* Colour values an option or an environment variable may hold; EmptyStr is
\* an absent one.
RED == <<"#", "F", "F", "0", "0", "0", "0">>

HALFGREEN == <<"#", "0", "0", "f", "f", "0", "0", "8", "0">>

NOTACOLOR == <<"n", "o", "t", "a", "c", "o", "l", "o", "r">>

SHORTHEX == <<"#", "F", "F", "F">>

BAREBLUE == <<"0", "0", "0", "0", "F", "F">>

ColourValues == {EmptyStr, RED, HALFGREEN, NOTACOLOR, SHORTHEX, BAREBLUE}

ColourInit ==
    \E tc \in ColourValues : \E bc \in ColourValues :
        \E et \in {EmptyStr, RED, NOTACOLOR} : \E eb \in {EmptyStr, HALFGREEN} :
            ass = [pc |-> "options",
                   opts |-> [textColorHex |-> tc, bgColorHex |-> bc],
                   colourEnv |-> [SUB_TEXT_COLOR |-> et, SUB_BG_COLOR |-> eb]]

InitColour == JMInit /\ ClockInit /\ DbIdle /\ SrvIdle /\ ColourInit

\* The option resolution of overlaySubtitlesBottomCenter: textAss and
\* backAss as they go into the Style line.
ResolveColours ==
    /\ ass.pc = "options"
    /\ ass' = [pc |-> "styled",
               textAss |-> hexToAss(ass.opts.textColorHex,
                                     SUB_TEXT_ASS(ass.colourEnv)),
               backAss |-> hexToAss(ass.opts.bgColorHex,
                                     SUB_BG_ASS(ass.colourEnv))] @@ ass
    /\ UNCHANGED NotAss

NextColour == ResolveColours

SpecColour == InitColour /\ [][NextColour]_vars

----------------------------------------------------------------------------
(* detectTextInFrame and detectTextInFrames of the OCR service *)

\* How many frames are handed to detectTextInFrames at most.
MaxOcrFrames == 2

Digits == {"0", "1", "2", "3", "4", "5", "6", "7", "8", "9"}

LatinLetters ==
    {"A", "B", "C", "D", "E", "F", "G", "H", "I", "J", "K", "L", "M",
     "N", "O", "P", "Q", "R", "S", "T", "U", "V", "W", "X", "Y", "Z"}

\* One character of [؀-ۿ...], of the decorative symbols, of the
\* zero-width characters and of the combining marks.
ArabicChars == {"U+0627"}

DecorativeChars == {"U+2022"}

ZeroWidthChars == {"U+200B"}

CombiningChars == {"U+0301"}

\* \p{L}
IsLetter(c) == c \in LatinLetters \cup HanChars \cup KanaChars \cup ArabicChars

\* cleanOCRText: zero-width characters and combining marks removed, then
\* trimmed.
cleanOCRText(text) ==
    Trim(SelectSeq(text, LAMBDA c : c \notin ZeroWidthChars \cup CombiningChars))

\* isValidText with OCR_FILTER_STANDALONE_NUMBERS and
\* OCR_ALLOW_MULTI_DIGIT_NUMBERS unset.
isValidText(text) ==
    LET chars == {text[i] : i \in 1 .. Len(text)}
        oneDigit == Len(text) = 1 /\ text[1] \in Digits
    IN  /\ Trim(text) # EmptyStr
        /\ ~(Len(text) = 1 /\ text[1] \in DecorativeChars)
        /\ chars \cap ArabicChars = {}
        /\ ~(chars \subseteq Digits /\ Len(text) >= 2)
        /\ ~(Len(text) = 1 /\ ~IsLetter(text[1]) /\ text[1] \notin Digits)
        /\ (Len(text) < 2 /\ chars \cap (LatinLetters \cup HanChars) = {})
               => oneDigit
        /\ (\A c \in chars : ~IsLetter(c)) => oneDigit

\* The TextBox of one annotation: the bounding box of its vertices.
TextBoxOf(annotation) ==
    LET v == annotation.vertices
        xs == {v[k].x : k \in DOMAIN v}
        ys == {v[k].y : k \in DOMAIN v}
        height == SetMax(ys) - SetMin(ys)
    IN  [text |-> cleanOCRText(annotation.description),
         x |-> SetMin(xs), y |-> SetMin(ys),
         width |-> SetMax(xs) - SetMin(xs), height |-> height,
         fontSize |-> RoundDiv(8 * height, 10)]

\* The body of detectTextInFrame's try block on what the frame's file and
\* the Vision API give: threw tells whether it ended in an exception.
detectBody(o) ==
    IF o.kind # "ok" THEN [threw |-> TRUE, texts |-> << >>]
    ELSE IF o.annotations = << >> THEN [threw |-> FALSE, texts |-> << >>]
    ELSE LET words == Tail(o.annotations)
             valid == SelectSeq(words,
                          LAMBDA a : isValidText(cleanOCRText(a.description)))
         IN  IF \E k \in DOMAIN valid : ~valid[k].hasPoly
             THEN [threw |-> TRUE, texts |-> << >>]
             ELSE [threw |-> FALSE,
                   texts |-> SelectSeq([k \in DOMAIN valid |-> TextBoxOf(valid[k])],
                                 LAMBDA t : t.width >= 5 /\ t.height >= 5)]

\* detectTextInFrame without its catch.
detectTextInFrameUncaught(o) == detectBody(o)

\* detectTextInFrame: the catch turns every exception into an empty list.
detectTextInFrame(o) ==
    IF detectBody(o).threw THEN [threw |-> FALSE, texts |-> << >>]
    ELSE detectBody(o)

\* What the Vision API annotates.
Annotation(description, x, y, w, h) ==
    [description |-> description, hasPoly |-> TRUE,
     vertices |-> <<[x |-> x, y |-> y], [x |-> x + w, y |-> y],
                    [x |-> x + w, y |-> y + h], [x |-> x, y |-> y + h]>>]

FullText == Annotation(HELLO \o <<"\n">> \o <<"4", "2">>, 10, 500, 100, 30)

HelloWord == Annotation(HELLO \o <<"U+200B">>, 10, 500, 100, 30)

NumberWord == Annotation(<<"4", "2">>, 10, 540, 40, 30)

TinyWord == Annotation(GOOD, 10, 500, 4, 30)

NoPolyWord == [description |-> GOOD, hasPoly |-> FALSE, vertices |-> << >>]

\* What can happen to one frame: the file cannot be read, the request
\* fails, the answer is not ok or no JSON, or the answer arrives.
OcrOutcomes ==
    {[kind |-> k, annotations |-> << >>] :
        k \in {"readFails", "fetchFails", "notOk", "badJson", "ok"}}
    \cup {[kind |-> "ok", annotations |-> a] :
        a \in {<<FullText, HelloWord, NumberWord>>, <<FullText, TinyWord>>,
               <<FullText, HelloWord, NoPolyWord>>}}

OcrInit ==
    \E n \in 1 .. MaxOcrFrames : \E o \in [1 .. n -> OcrOutcomes] :
        \E first \in {1, 3} :
            ass = [pc |-> "ocr",
                   frames |-> [i \in 1 .. n |-> [frameNumber |-> first + i - 1]],
                   outcomes |-> o, detections |-> << >>]

InitOcr == JMInit /\ ClockInit /\ DbIdle /\ SrvIdle /\ OcrInit

\* One round of the loop of detectTextInFrames: the next frame is detected
\* and its record pushed; an exception out of detectTextInFrame would end
\* the call.
DetectFrame ==
    /\ ass.pc = "ocr"
    /\ Len(ass.detections) < Len(ass.frames)
    /\ LET i == Len(ass.detections) + 1
           r == detectTextInFrame(ass.outcomes[i])
       IN  ass' = IF r.threw THEN [ass EXCEPT !.pc = "aborted"]
                  ELSE [ass EXCEPT !.detections =
                           Append(@, [frameNumber |-> ass.frames[i].frameNumber,
                                      texts |-> r.texts])]
    /\ UNCHANGED NotAss

\* The loop is over: detectTextInFrames returns the detections.
ReturnDetections ==
    /\ ass.pc = "ocr"
    /\ Len(ass.detections) = Len(ass.frames)
    /\ ass' = [ass EXCEPT !.pc = "ocrDone"]
    /\ UNCHANGED NotAss

NextOcr ==
    \/ DetectFrame
    \/ ReturnDetections

SpecOcr == InitOcr /\ [][NextOcr]_vars

----------------------------------------------------------------------------
(* translateTexts under inputs of its own *)

\* How many phrases are handed to translateTexts at most.
MaxPhrases == 2

BLANKS == <<" ", " ">>

TranslatePhrases == {HELLO, GOOD_MORNING, CONSTRUCTOR, EmptyStr}

\* What the provider may give for one phrase.
TranslationValues == {EmptyStr, BONJOUR, NIHAO, BLANKS}

TranslateInit ==
    \E texts \in {T \in SUBSET TranslatePhrases : Cardinality(T) <= MaxPhrases} :
        \E K \in SUBSET TranslatePhrases : \E answer \in [K -> TranslationValues] :
            ass = [pc |-> "phrases", texts |-> texts, answer |-> answer]

InitTranslate == JMInit /\ ClockInit /\ DbIdle /\ SrvIdle /\ TranslateInit

\* translateTexts on the phrases, the provider answering with answer.
TranslateTexts ==
    /\ ass.pc = "phrases"
    /\ ass' = [pc |-> "mapped",
               translationMap |-> translateTexts(ass.texts, ass.answer)] @@ ass
    /\ UNCHANGED NotAss

\* Step 5 of translateVideoAss for each of the phrases.
ShowTexts ==
    /\ ass.pc = "mapped"
    /\ ass' = [pc |-> "shown",
               shown |-> [t \in ass.texts |->
                             translatedText(ass.translationMap, t)]] @@ ass
    /\ UNCHANGED NotAss

NextTranslate ==
    \/ TranslateTexts
    \/ ShowTexts

SpecTranslate == InitTranslate /\ [][NextTranslate]_vars

----------------------------------------------------------------------------
(* The font download and the ffmpeg runs of overlaySubtitlesBottomCenter *)

Platforms == {"darwin", "linux"}

\* The codec of the first run.
firstCodec(platform) ==
    IF platform = "darwin" THEN "h264_videotoolbox" ELSE "libx264"

\* The second run with the codec of the first.
fallbackCodecSame(platform) == firstCodec(platform)

\* The codec of the run in the catch of the first.
fallbackCodec(platform) ==
    IF platform = "darwin" THEN "libx264" ELSE "h264_videotoolbox"

\* What a fetch of the font gives: a font file, a file that is no font (an
\* HTML page), or a failure.
FetchOutcomes == {"font", "notFont", "fails"}

\* The ASS file is written; ASS_FONT_URL is set or not, and a font file of
\* an earlier run may be in the fonts directory.
RenderInit ==
    \E platform \in Platforms : \E fontUrl \in BOOLEAN : \E cached \in BOOLEAN :
        \E frames \in {f \in TranslatedFrames : Len(f) = 1} :
            ass = [pc |-> "assWritten", platform |-> platform,
                   fontUrl |-> fontUrl, cached |-> cached,
                   translatedFrames |-> frames,
                   fetches |-> << >>, fontUsed |-> FALSE, codecs |-> << >>]

InitRender == JMInit /\ ClockInit /\ DbIdle /\ SrvIdle /\ RenderInit

\* ensureExternalFont up to the end of its first fetch: nothing to do
\* without a URL or with a font already in place; a failed fetch is caught
\* by the caller, which goes on without the font.
FontFirstFetch ==
    /\ ass.pc = "assWritten"
    /\ IF ~ass.fontUrl
       THEN ass' = [ass EXCEPT !.pc = "fontDone"]
       ELSE IF ass.cached
       THEN ass' = [ass EXCEPT !.pc = "fontDone", !.fontUsed = TRUE]
       ELSE \E o \in FetchOutcomes :
              ass' = [ass EXCEPT
                        !.fetches = Append(@, o),
                        !.pc = IF o = "notFont" THEN "fontRefetch" ELSE "fontDone",
                        !.fontUsed = (o = "font")]
    /\ UNCHANGED NotAss

\* The file fetched is no font: the URL is fetched once more with ?raw=1,
\* and whatever arrives is used; a failure is caught by the caller.
FontSecondFetch ==
    /\ ass.pc = "fontRefetch"
    /\ \E o \in FetchOutcomes :
         ass' = [ass EXCEPT !.fetches = Append(@, o), !.pc = "fontDone",
                            !.fontUsed = (o # "fails")]
    /\ UNCHANGED NotAss

\* The first ffmpeg run, with the platform's codec.
RenderFirst ==
    /\ ass.pc = "fontDone"
    /\ \E ok \in BOOLEAN :
         ass' = [ass EXCEPT !.codecs = Append(@, firstCodec(ass.platform)),
                            !.pc = IF ok THEN "done" ELSE "renderFallback"]
    /\ UNCHANGED NotAss

\* The first run failed: ffmpeg is run once more with the other codec, and
\* its failure is the failure of overlaySubtitlesBottomCenter.
RenderFallback ==
    /\ ass.pc = "renderFallback"
    /\ \E ok \in BOOLEAN :
         ass' = [ass EXCEPT !.codecs = Append(@, fallbackCodec(ass.platform)),
                            !.pc = IF ok THEN "done" ELSE "failed"]
    /\ UNCHANGED NotAss

NextRender ==
    \/ FontFirstFetch
    \/ FontSecondFetch
    \/ RenderFirst
    \/ RenderFallback

SpecRender == InitRender /\ [][NextRender]_vars

----------------------------------------------------------------------------
(* previewVideoAss *)

\* /[\p{L}\p{N}㐀-鿿]/u.test(s)
hasMeaningful(s) ==
    \E i \in 1 .. Len(s) : IsLetter(s[i]) \/ s[i] \in Digits

\* tryIndex: whether the frame has detections whose grouped lines, joined,
\* hold a letter or a digit.
tryIndex(det) ==
    /\ det.texts # << >>
    /\ LET grouped == groupTextsIntoLines(det)
           merged == Trim(Join([k \in DOMAIN grouped.texts |->
                                   grouped.texts[k].text], <<" ">>))
       IN  merged # EmptyStr /\ hasMeaningful(merged)

\* The index of the frame nearest to the requested second, the first of
\* the nearest ones; 1 when no second is requested.
startIndex(frames, at) ==
    IF at = None THEN 1
    ELSE LET dist(i) == IF frames[i].frameNumber - 1 >= Number(at)
                        THEN frames[i].frameNumber - 1 - Number(at)
                        ELSE Number(at) - (frames[i].frameNumber - 1)
         IN  SetMin({i \in DOMAIN frames :
                        \A j \in DOMAIN frames : dist(i) <= dist(j)})

\* The frame chosen: the first with text from the start index on, else the
\* nearest before it; 0 when no frame has text.
chosenIndex(frames, at) ==
    LET start == startIndex(frames, at)
        forward == {i \in start .. Len(frames) : tryIndex(frames[i])}
        backward == {i \in 1 .. start - 1 : tryIndex(frames[i])}
    IN  IF forward # {} THEN SetMin(forward)
        ELSE IF backward # {} THEN SetMax(backward)
        ELSE 0

PreviewInit ==
    \E d \in Detections : \E at \in {None, "0", "1"} : \E env \in Envs :
        \E answer \in Answers :
            ass = [pc |-> "preview", detections |-> d, at |-> at, env |-> env,
                   answer |-> answer]

InitPreview == JMInit /\ ClockInit /\ DbIdle /\ SrvIdle /\ PreviewInit

\* Steps 2 and 3 of previewVideoAss: the frame is chosen and grouped, or
\* the preview fails with "No text found to preview".
PreviewChoose ==
    /\ ass.pc = "preview"
    /\ LET i == chosenIndex(ass.detections, ass.at)
       IN  ass' = IF i = 0 THEN [ass EXCEPT !.pc = "failed"]
                  ELSE [pc |-> "chosen",
                        grouped |-> groupTextsIntoLines(ass.detections[i])]
                       @@ ass
    /\ UNCHANGED NotAss

\* Steps 4 and 5: the chosen frame's lines are translated and handed to
\* renderSubtitlesPreview.
PreviewTranslate ==
    /\ ass.pc = "chosen"
    /\ LET texts == {ass.grouped.texts[k].text : k \in DOMAIN ass.grouped.texts}
           map == translateTexts(texts, ass.answer)
       IN  ass' = [pc |-> "previewed",
                   translatedFrame |->
                       applyTranslations(<<ass.grouped>>, map)[1]] @@ ass
    /\ UNCHANGED NotAss

NextPreview ==
    \/ PreviewChoose
    \/ PreviewTranslate

SpecPreview == InitPreview /\ [][NextPreview]_vars

----------------------------------------------------------------------------
(* The working directories of translateVideoAss and previewVideoAss *)

\* How many pipeline invocations run side by side.
NumInvocations == 2

Invocations == 1 .. NumInvocations

\* path.resolve(`./temp/job_${Date.now()}`)
workDirAt(t) == <<"temp", "job_", t>>

WorkDirInit ==
    ass = [pc |-> "pipelines",
           runs |-> [p \in Invocations |->
                        [pc |-> "idle", kind |-> None, workDir |-> << >>]]]

InitWorkDir == JMInit /\ ClockInit /\ DbIdle /\ SrvIdle /\ WorkDirInit

\* translateVideoAss or previewVideoAss is called: the working directory
\* is named after the current millisecond and made with mkdir recursive,
\* which succeeds on a directory that exists.
StartPipeline(p) ==
    /\ ass.pc = "pipelines"
    /\ ass.runs[p].pc = "idle"
    /\ \E kind \in {"translateVideoAss", "previewVideoAss"} :
         ass' = [ass EXCEPT !.runs[p] =
                    [pc |-> "running", kind |-> kind, workDir |-> workDirAt(now)]]
    /\ UNCHANGED NotAss

\* The invocation returns or throws.
FinishPipeline(p) ==
    /\ ass.pc = "pipelines"
    /\ ass.runs[p].pc = "running"
    /\ ass' = [ass EXCEPT !.runs[p].pc = "finished"]
    /\ UNCHANGED NotAss

NextWorkDir ==
    \/ \E p \in Invocations : StartPipeline(p)
    \/ \E p \in Invocations : FinishPipeline(p)
    \/ Tick

SpecWorkDir == InitWorkDir /\ [][NextWorkDir]_vars

----------------------------------------------------------------------------
(* Claims about the JobManager, checked under Spec.  In every state `last`
   is the last JobManager call and `jobs` the store it left: only Tick, which
   leaves the store alone, can have happened since. *)

\* The five update operations of the JobManager.
UpdateOps ==
    {"updateJob", "setJobProcessing", "setJobCompleted", "setJobFailed",
     "updateProgress"}

\* C1: once a job's status is completed or failed, no update operation
\* (updateJob, setJobProcessing, setJobCompleted, setJobFailed, updateProgress)
\* makes it queued or processing again.
C1_TerminalNeverReverts ==
    (last.op \in UpdateOps /\ last.pre.status \in Terminal)
        => jobs[last.id].status \in Terminal

\* C2: setJobCompleted on a job whose status is failed is a no-op: the status
\* stays failed and outputPath, progress and stats are unchanged.
C2_CompletedAfterFailedIsNoOp ==
    (last.op = "setJobCompleted" /\ last.pre.status = "failed")
        => /\ jobs[last.id].status = "failed"
           /\ jobs[last.id].outputPath = last.pre.outputPath
           /\ jobs[last.id].progress = last.pre.progress
           /\ jobs[last.id].stats = last.pre.stats

\* C3: while a job's status is processing, no update operation lowers its
\* progress.
C3_ProgressMonotoneWhileProcessing ==
    ( /\ last.op \in UpdateOps
      /\ last.pre.status = "processing"
      /\ jobs[last.id].status = "processing" )
        => jobs[last.id].progress >= last.pre.progress

\* C8: the id createJob returns is not the id of a job already in the store,
\* and the new job has status queued and progress 0.
C8_CreateJobIdIsFresh ==
    last.op = "createJob"
        => /\ last.pre = Undefined
           /\ jobs[last.id].status = "queued"
           /\ jobs[last.id].progress = 0

----------------------------------------------------------------------------
(* Claims about the DatabaseProvider implementations, checked under SpecDb.
   `dbLast` is the last write (or unknown-id return) of a provider and `rows`
   the store it left. *)

\* C7: for Postgres and SQLite, when two updateJob calls on the same existing
\* job that set different fields have both completed, the stored job carries
\* the field values of both calls.
C7_NoLostUpdate ==
    \A c1 \in DbCallers : \A c2 \in DbCallers \ {c1} :
        ( /\ dbType \in {"postgres", "sqlite"}
          /\ dbCall[c1].pc = "done" /\ dbCall[c2].pc = "done"
          /\ dbCall[c1].id = dbCall[c2].id
          /\ dbCall[c1].job # Undefined /\ dbCall[c2].job # Undefined
          /\ DOMAIN dbCall[c1].updates \cap DOMAIN dbCall[c2].updates = {} )
        => \A f \in DOMAIN dbCall[c1].updates :
               rows[dbCall[c1].id][f] = dbCall[c1].updates[f]

\* C9: every updateJob of a provider on an existing job leaves updatedAt equal
\* to the time of the update, and an updateJob of an unknown id changes
\* nothing.
C9_UpdateRefreshesUpdatedAt ==
    dbLast.op = "updateJob"
        => IF dbLast.found
           THEN rows[dbLast.id].updatedAt = dbLast.at
           ELSE ~dbLast.changed

----------------------------------------------------------------------------
(* Claims about the HTTP API, checked under SpecServer. *)

\* C4: if a stage of translateVideoAss throws while processVideoJob runs a
\* job, the job ends in status failed with error equal to the exception
\* message, it is never seen in status completed, and GET /api/download never
\* serves an output for it; a job is completed only after translateVideoAss
\* has resolved with an outputPath.
C4_ThrowingPipelineEndsFailed ==
    \A r \in DOMAIN req :
        LET id == req[r].jobId
        IN  /\ (req[r].pc = "done" /\ req[r].err # None)
                   => req[r].final = [status |-> "failed", error |-> req[r].err]
            /\ req[r].err # None
                   => /\ getJob(jobs, id).status # "completed"
                      /\ 200 \notin Download(jobs, id)
            /\ getJob(jobs, id).status = "completed"
                   => /\ jobs[id].outputPath # None
                      /\ \E q \in DOMAIN req :
                            /\ req[q].jobId = id
                            /\ req[q].pc = "done"
                            /\ req[q].err = None

\* C5: once the upload handler and the pipeline it may have started are
\* finished, whatever the outcome (202, 400 or 500), the job the handler added
\* to the store is completed or failed.
C5_UploadedJobReachesTerminal ==
    \A r \in DOMAIN req :
        (req[r].pc \in {"responded", "done"} /\ Attached(jobs, req, r))
            => jobs[req[r].jobId].status \in Terminal

\* C6: the 202 response of POST /api/upload reports status "queued".
C6_AcceptedResponseSaysQueued ==
    \A r \in DOMAIN req :
        req[r].resp.code = 202 => req[r].resp.status = "queued"

----------------------------------------------------------------------------
(* Claims about the ASS subtitle pipeline, checked under SpecAss. *)

\* The run of the scenario: frames 1 and 2, each with the one box
\* {"HELLO", 10, 500, 100, 30}, and the translation map {HELLO: BONJOUR}.
HelloTwice ==
    /\ ass.detections = <<[frameNumber |-> 1, texts |-> <<HelloBox>>],
                          [frameNumber |-> 2, texts |-> <<HelloBox>>]>>
    /\ ass.answer = French

\* SUBTITLE_MIN_CHARS=5 and SUBTITLE_MIN_WORDS=1, everything else unset.
HelloEnv == [DefaultEnv EXCEPT !.minChars = "5", !.minWords = "1"]

\* The event BONJOUR from 0:00:00.00 to 0:00:02.00.
BonjourEvent ==
    [start |-> [h |-> 0, m |-> 0, s |-> 0, c |-> 0],
     end |-> [h |-> 0, m |-> 0, s |-> 2, c |-> 0],
     text |-> BONJOUR]

\* C10 (as the code has it): the pipeline run on frames 1 and 2 that each hold
\* the single box {"HELLO", 10, 500, 100, 30}, with the translation map
\* {HELLO: BONJOUR}, emits no subtitle event under the default filter
\* configuration, HELLO having 5 characters and 1 word where the defaults ask
\* for 6 and 2; with SUBTITLE_MIN_CHARS=5 and SUBTITLE_MIN_WORDS=1 it emits
\* exactly one event, text BONJOUR, from 0.0 s to 2.0 s.
C10_HelloNeedsLowerMinimums ==
    (ass.pc = "done" /\ HelloTwice) =>
        /\ ass.env = DefaultEnv => ass.events = << >>
        /\ ass.env = HelloEnv => ass.events = <<BonjourEvent>>

\* A finished run of the scenario under the default configuration.
C10_DefaultRunDone ==
    /\ ass.pc = "done"
    /\ HelloTwice
    /\ ass.env = DefaultEnv
    /\ ass.subtitleFrames[1].texts = << >>
    /\ ass.events = << >>

\* C10 as stated: under the default filter configuration the run emits
\* exactly one event, text BONJOUR, from 0.0 s to 2.0 s.
C10_OneBonjourEvent ==
    (ass.pc = "done" /\ HelloTwice /\ ass.env = DefaultEnv) =>
        ass.events = <<BonjourEvent>>

----------------------------------------------------------------------------
(* Claims about the overlay's events, checked under SpecOverlay and
   SpecMerge. *)

\* The laid-out text of the i-th translated frame.
LaidOut(i) == decide(perFrame(ass.translatedFrames[i]), ass.vW, FALSE).text

\* The maximal runs <<i, j>> of frames with one non-empty laid-out text.
Runs ==
    LET n == Len(ass.translatedFrames)
    IN  {r \in (1 .. n) \X (1 .. n) :
            /\ r[1] <= r[2]
            /\ LaidOut(r[1]) # EmptyStr
            /\ \A k \in r[1] .. r[2] : LaidOut(k) = LaidOut(r[1])
            /\ r[1] = 1 \/ LaidOut(r[1] - 1) # LaidOut(r[1])
            /\ r[2] = n \/ LaidOut(r[2] + 1) # LaidOut(r[1])}

\* The seconds a printed time stands for, whole seconds only.
Seconds(t) == t.h * 3600 + t.m * 60 + t.s

\* Whether event e is the event of run r.
EventOfRun(e, r) ==
    /\ e.start.c = 0 /\ e.end.c = 0
    /\ Seconds(e.start) = ass.translatedFrames[r[1]].frameNumber - 1
    /\ Seconds(e.end) = ass.translatedFrames[r[2]].frameNumber
    /\ e.text = escAss(LaidOut(r[1]))

\* C11: for frames numbered in steps of one, the events of
\* overlaySubtitlesBottomCenter correspond one to one to the maximal runs of
\* consecutive frames with the same non-empty laid-out text: as many events
\* as runs, and each run has exactly one event, which starts at the run's
\* first frame number minus one and ends at its last frame number.
C11_OneEventPerRun ==
    ass.pc = "done" =>
        /\ Len(ass.events) = Cardinality(Runs)
        /\ \A r \in Runs :
               Cardinality({i \in DOMAIN ass.events :
                               EventOfRun(ass.events[i], r)}) = 1

\* Three frames with the texts A, B, A have given three events.
C11_ThreeEventsForABA ==
    /\ ass.pc = "done"
    /\ Len(ass.translatedFrames) = 3
    /\ LaidOut(1) = HELLO /\ LaidOut(2) = BONJOUR /\ LaidOut(3) = HELLO
    /\ Len(ass.events) = 3

\* C12: for frames with strictly increasing frame numbers, the events of
\* mergeFrameTexts are ordered by start, each ends no later than the next
\* starts, and no two adjacent events carry the same text.
C12_EventsOrderedDisjoint ==
    ass.pc = "merged" =>
        \A i \in 1 .. Len(ass.merged) - 1 :
            /\ ass.merged[i].start < ass.merged[i + 1].start
            /\ ass.merged[i].end <= ass.merged[i + 1].start
            /\ ass.merged[i].text # ass.merged[i + 1].text

\* Frames 1 and 3 with one text and frame 4 with another have been merged
\* into two events, the first across the gap.
C12_MergedAcrossGap ==
    /\ ass.pc = "merged"
    /\ Len(ass.merged) = 2
    /\ ass.merged[1] = [text |-> HELLO, start |-> 0, end |-> 3]
    /\ ass.merged[2] = [text |-> BONJOUR, start |-> 3, end |-> 4]

----------------------------------------------------------------------------
(* Claims about groupTextsIntoLines, checked under SpecGroup. *)

\* The vertical overlap fraction of two boxes is at least 0.5: twice the
\* height of their intersection is at least the shorter height.
OverlapAtLeastHalf(a, b) ==
    LET inter == Max2(0, Min2(a.y + a.height, b.y + b.height) - Max2(a.y, b.y))
    IN  2 * inter >= Min2(a.height, b.height)

\* The boxes of the frame.
FrameBoxes == ass.detections[1].texts

\* The letters of a LineGroup's text.
LettersOf(group) == {group.text[i] : i \in DOMAIN group.text} \ {" "}

\* C13: when the boxes of a frame have positive heights and every two of
\* them overlap vertically by at least half the shorter height,
\* groupTextsIntoLines returns exactly one LineGroup, and it holds all the
\* boxes, whatever their order, heights and x positions.
C13_PairwiseOverlapOneGroup ==
    (/\ ass.pc = "grouped"
     /\ \A i, j \in DOMAIN FrameBoxes :
            OverlapAtLeastHalf(FrameBoxes[i], FrameBoxes[j]))
    => /\ Len(ass.groupedFrames[1].texts) = 1
       /\ LettersOf(ass.groupedFrames[1].texts[1])
              = {FrameBoxes[i].text[1] : i \in DOMAIN FrameBoxes}
       /\ Len(StripSpaces(ass.groupedFrames[1].texts[1].text)) = Len(FrameBoxes)

\* Three boxes of different heights and tops, each two overlapping by half,
\* have been grouped into one line.
C13_ThreeBoxesOneGroup ==
    /\ ass.pc = "grouped"
    /\ Len(FrameBoxes) = 3
    /\ \A i, j \in DOMAIN FrameBoxes :
           OverlapAtLeastHalf(FrameBoxes[i], FrameBoxes[j])
    /\ Cardinality({FrameBoxes[i].y : i \in DOMAIN FrameBoxes}) = 3
    /\ Cardinality({FrameBoxes[i].height : i \in DOMAIN FrameBoxes}) = 3
    /\ Len(ass.groupedFrames[1].texts) = 1

RECURSIVE Linked(_, _, _)
\* The boxes of a line linked to those of S by chains of at most k boxes
\* of the line, each overlapping the one before it by half.
Linked(S, items, k) ==
    IF k = 0 THEN S
    ELSE Linked(S \cup {j \in DOMAIN items :
                           \E i \in S : OverlapAtLeastHalf(items[i], items[j])},
                items, k - 1)

\* Whether chains link all the boxes of one line.
Chained(items) == Linked({1}, items, Len(items)) = DOMAIN items

\* C14: two boxes are in one LineGroup only if a chain of boxes of that
\* group links them, each consecutive pair overlapping by at least half;
\* the comparison with the line's span never takes in a box that overlaps
\* no box of the line by half.
C14_GroupsAreChains ==
    ass.pc = "grouped" =>
        LET lines == lineItems(ass.detections[1])
        IN  /\ Len(lines) = Len(ass.groupedFrames[1].texts)
            /\ \A k \in DOMAIN lines :
                   /\ Chained(lines[k].items)
                   /\ \A i \in 2 .. Len(lines[k].items) :
                          \E j \in 1 .. i - 1 :
                              OverlapAtLeastHalf(lines[k].items[i],
                                                 lines[k].items[j])

\* A line of three boxes whose first and last do not overlap by half, and a
\* span taller than each of its boxes.
C14_ChainOfThree ==
    /\ ass.pc = "grouped"
    /\ Len(FrameBoxes) = 3
    /\ Len(ass.groupedFrames[1].texts) = 1
    /\ \E i, j \in DOMAIN FrameBoxes :
           ~OverlapAtLeastHalf(FrameBoxes[i], FrameBoxes[j])
    /\ \A i \in DOMAIN FrameBoxes :
           ass.groupedFrames[1].texts[1].height > FrameBoxes[i].height

----------------------------------------------------------------------------
(* Claims about filterSubtitleLike, checked under SpecFilter. *)

\* The lines of the i-th grouped frame that pass the per-frame pass.
Survivors(i) == prelimFrame(ass.groupedFrames[i], FilterConfig(ass.env)).texts

\* Whether the text survived the per-frame pass in the frame numbered n.
SurvivedIn(text, n) ==
    \E i \in DOMAIN ass.groupedFrames :
        /\ ass.groupedFrames[i].frameNumber = n
        /\ \E k \in DOMAIN Survivors(i) : Survivors(i)[k].text = text

\* Whether the text survived in two frames numbered n and n + 1.
Persistent(text) ==
    \E i \in DOMAIN ass.groupedFrames :
        /\ SurvivedIn(text, ass.groupedFrames[i].frameNumber)
        /\ SurvivedIn(text, ass.groupedFrames[i].frameNumber + 1)

\* C15: with persistence required, filterSubtitleLike keeps in every frame
\* exactly the surviving lines whose text survived the per-frame pass in two
\* frames numbered n and n + 1: a text of frame 3 alone, or of frames 3 and
\* 5 alone, is removed everywhere, a text of frames 3 and 4 is kept wherever
\* it survived.
C15_KeptIffConsecutive ==
    (ass.pc = "filtered" /\ FilterConfig(ass.env).requirePersistence) =>
        \A i \in DOMAIN ass.subtitleFrames :
            ass.subtitleFrames[i].texts
                = SelectSeq(Survivors(i), LAMBDA t : Persistent(t.text))

\* Frames 3, 4 and 5 under the default settings: the text of frames 3 and 4
\* was kept in both, the text of frame 5 alone was removed.
C15_KeptAndDropped ==
    /\ ass.pc = "filtered"
    /\ ass.env = DefaultEnv
    /\ Len(ass.groupedFrames) = 3
    /\ ass.groupedFrames[1].texts = <<MorningLine>>
    /\ ass.groupedFrames[2].texts = <<LogoLine, MorningLine>>
    /\ ass.groupedFrames[3].texts = << >>
    /\ ass.subtitleFrames[1].texts = <<MorningLine>>
    /\ ass.subtitleFrames[2].texts = <<MorningLine>>

----------------------------------------------------------------------------
(* Claims about layoutForText, checked under SpecLayout. *)

\* C16: layoutForText run on its own output (the wrapped text, the fitted
\* size, the same box width) returns the same fitted font size, never a
\* smaller one.
C16_LayoutAgainKeepsFitted ==
    ass.pc = "laidOutAgain" => ass.again.fitted = ass.layout.fitted

----------------------------------------------------------------------------
(* Claims about the colours, checked under SpecColour. *)

\* &HAABBGGRR
WellFormedAss(s) ==
    /\ Len(s) = 10
    /\ s[1] = "&"
    /\ s[2] = "H"
    /\ \A i \in 3 .. 10 : s[i] \in HexDigits

\* Whether an option is of the form #RRGGBB or #RRGGBBAA.
IsHashColour(v) == v # EmptyStr /\ Head(v) = "#" /\ IsHexColour(Tail(v))

\* C17: when textColorHex or bgColorHex is missing or is not of the form
\* #RRGGBB or #RRGGBBAA, the colour used is the default (white text,
\* half-transparent black background, or the environment's override) as a
\* well-formed ASS colour &HAABBGGRR.
C17_BadColourFallsBackToDefault ==
    ass.pc = "styled" =>
        /\ ~IsHashColour(ass.opts.textColorHex) /\ ~IsHexColour(ass.opts.textColorHex)
               => /\ ass.textAss = SUB_TEXT_ASS(ass.colourEnv)
                  /\ WellFormedAss(ass.textAss)
        /\ ~IsHashColour(ass.opts.bgColorHex) /\ ~IsHexColour(ass.opts.bgColorHex)
               => /\ ass.backAss = SUB_BG_ASS(ass.colourEnv)
                  /\ WellFormedAss(ass.backAss)

----------------------------------------------------------------------------
(* Claims about detectTextInFrames, checked under SpecOcr. *)

\* C18: an OCR failure for a frame never ends detectTextInFrames early: it
\* returns one detection record per input frame, in the frames' order and
\* with their frame numbers, and the record of a failed frame has an empty
\* list of texts.
C18_OneDetectionPerFrame ==
    /\ ass.pc # "aborted"
    /\ ass.pc = "ocrDone" =>
           /\ Len(ass.detections) = Len(ass.frames)
           /\ \A i \in DOMAIN ass.frames :
                  /\ ass.detections[i].frameNumber = ass.frames[i].frameNumber
                  /\ detectBody(ass.outcomes[i]).threw
                         => ass.detections[i].texts = << >>

\* Two frames, the first one's request failed, the second one's word was
\* read: two records, the first empty, the second with the word.
C18_FailedThenRead ==
    /\ ass.pc = "ocrDone"
    /\ Len(ass.frames) = 2
    /\ ass.outcomes[1].kind = "fetchFails"
    /\ ass.detections[1].texts = << >>
    /\ Len(ass.detections[2].texts) = 1
    /\ ass.detections[2].texts[1].text = HELLO

----------------------------------------------------------------------------
(* Claims about translateTexts, checked under SpecTranslate. *)

\* Whether the returned map has a non-empty entry of its own for the phrase.
HasTranslation(t) ==
    t \in DOMAIN ass.translationMap /\ ass.translationMap[t] # EmptyStr

\* C19: for every phrase passed to translateTexts, the text shown is the
\* provider's translation (with its CJK spacing normalised) when the
\* returned map has a non-empty entry for the phrase, and the phrase itself
\* when the entry is missing or empty; and the returned map has a non-empty
\* value for every phrase.
C19_TranslationOrOriginal ==
    ass.pc = "shown" =>
        \A t \in ass.texts :
            /\ ass.shown[t] = IF HasTranslation(t)
                              THEN normalizeCJKSpacing(ass.translationMap[t])
                              ELSE t
            /\ HasTranslation(t)

----------------------------------------------------------------------------
(* Claims about a run without subtitle candidates, checked under SpecAss. *)

\* Whether the filter left no line in any frame.
NoCandidates ==
    ass.pc \in {"filtered", "translated", "done", "failed"}
        /\ phrases(ass.subtitleFrames) = {}

----------------------------------------------------------------------------
(* Claims about the font download and the ffmpeg runs, checked under
   SpecRender. *)

----------------------------------------------------------------------------
(* Claims about previewVideoAss, checked under SpecPreview. *)

\* C22: the lines previewVideoAss translates and renders for its frame are
\* the lines the per-frame pass of filterSubtitleLike keeps for that frame.
C22_PreviewShowsFilteredLines ==
    ass.pc = "previewed" =>
        [k \in DOMAIN ass.translatedFrame.texts |->
            ass.translatedFrame.texts[k].text]
        = [k \in DOMAIN prelimFrame(ass.grouped, FilterConfig(ass.env)).texts |->
            prelimFrame(ass.grouped, FilterConfig(ass.env)).texts[k].text]

----------------------------------------------------------------------------
(* Claims about the working directories, checked under SpecWorkDir. *)

\* C23: no two invocations of translateVideoAss or previewVideoAss that
\* are running at the same time have the same working directory.
C23_WorkDirsDistinct ==
    ass.pc = "pipelines" =>
        \A p, q \in Invocations :
            (p # q /\ ass.runs[p].pc = "running" /\ ass.runs[q].pc = "running")
                => ass.runs[p].workDir # ass.runs[q].workDir

----------------------------------------------------------------------------
(* Claims about the eviction of jobs, checked under SpecEvict. *)

\* A step of cleanupOldJobs: the only call that leaves the clock and the
\* call count alone.
CleanupStep == last'.op = "cleanupOldJobs" /\ now' = now /\ calls' = calls

\* C24: after cleanupOldJobs runs at time now, the store holds exactly the
\* jobs that were in it and have now - updatedAt <= jobTTL, each of them
\* unchanged; every job with now - updatedAt > jobTTL is gone.
C24_CleanupKeepsExactlyFresh ==
    [][CleanupStep =>
          /\ DOMAIN jobs' = {id \in DOMAIN jobs : now - jobs[id].updatedAt <= jobTTL}
          /\ \A id \in DOMAIN jobs' : jobs'[id] = jobs[id]]_vars

\* A cleanupOldJobs that removed a job and kept another.
C24_RemovedOneKeptOne ==
    /\ last.op = "cleanupOldJobs"
    /\ last.removed # {}
    /\ DOMAIN jobs # {}

\* A step of createJob.
CreateStep == last'.op = "createJob" /\ calls' = calls + 1

\* The store of a createJob step after jobs.set and before enforceMaxJobs:
\* the jobs left and the jobs removed, the new job as it was created.
Stored(id) ==
    IF id \in DOMAIN jobs' THEN jobs'[id]
    ELSE IF id = last'.id THEN NewJob(id, now)
    ELSE jobs[id]

\* C25: when createJob makes the job count exceed maxJobs, enforceMaxJobs
\* removes only completed and failed jobs, the ones with the smallest
\* updatedAt, and exactly min(count - maxJobs, number of terminal jobs) of
\* them; queued and processing jobs, the new job included, stay.
C25_EvictsOldestTerminalOnly ==
    [][CreateStep =>
          LET before == DOMAIN jobs \cup {last'.id}
              removed == before \ DOMAIN jobs'
              count == Cardinality(before)
              terminal == {id \in before : Stored(id).status \in {"completed", "failed"}}
              excess == IF count > maxJobs THEN count - maxJobs ELSE 0
          IN  /\ DOMAIN jobs' \subseteq before
              /\ \A id \in DOMAIN jobs' \ {last'.id} : jobs'[id] = jobs[id]
              /\ last'.id \in DOMAIN jobs'
              /\ jobs'[last'.id] = NewJob(last'.id, now)
              /\ removed \subseteq terminal
              /\ Cardinality(removed)
                     = (IF excess <= Cardinality(terminal) THEN excess
                        ELSE Cardinality(terminal))
              /\ \A a \in removed : \A b \in terminal \ removed :
                     Stored(a).updatedAt <= Stored(b).updatedAt]_vars

\* A createJob that removed a terminal job and left a store at maxJobs.
C25_EvictedOne ==
    /\ last.op = "createJob"
    /\ last.removed # {}
    /\ Cardinality(DOMAIN jobs) = maxJobs

----------------------------------------------------------------------------
(* Claims about the cleanup timer and a running job, checked under
   SpecServer. *)

\* C28: cleanupOldJobs never removes a job whose status is queued or
\* processing: however long the pipeline takes, the job is in the store
\* when the pipeline finishes, and getJob shows its completed or failed
\* status.
C28_RunningJobSurvivesCleanup ==
    \A r \in DOMAIN req :
        /\ req[r].pc \in {"writing", "downloading", "running"}
               => req[r].jobId \in DOMAIN jobs
        /\ req[r].pc = "done" => req[r].final.status \in Terminal

----------------------------------------------------------------------------
(* Claims about the fit of layoutForText, checked under SpecLayout. *)

\* The length of the longest line of a layout.
LongestLine(layout) ==
    SetMax({Len(layout.lines[k]) : k \in DOMAIN layout.lines} \cup {0})

\* The width factor of a layout's script, in percent.
FactorOf(layout) ==
    IF layout.isC THEN CJK_WIDTH_FACTOR ELSE LATIN_WIDTH_FACTOR

\* C26: after layoutForText the estimated width of the longest line
\* (characters x width factor x fitted size) is at most the box width less
\* twice BOX_PADDING, unless the fitted size is at its floor of 12.
C26_LongestLineFits ==
    ass.pc = "laidOut" =>
        \/ ass.layout.fitted <= 12
        \/ LongestLine(ass.layout) * FactorOf(ass.layout) * ass.layout.fitted
               <= Max2(10, ass.textObj.width - BOX_PADDING * 2) * 100

\* C30: layoutForText never returns a fitted size above the input font
\* size, input sizes below 12 included.
C30_FittedNotAboveInput ==
    ass.pc = "laidOut" => ass.layout.fitted <= ass.textObj.fontSize

----------------------------------------------------------------------------
(* Claims about the per-frame pass of filterSubtitleLike, checked under
   SpecFilter. *)

\* Whether the line passes the region, text and aspect tests in the i-th
\* grouped frame.
PassesTests(t, i) ==
    LET c == FilterConfig(ass.env)
        h == estFrameHeight(ass.groupedFrames[i])
    IN  inRegion(t, c, h) /\ passesText(t, c) /\ passesAspect(t, c)

\* How often the line stands in the list.
TimesIn(t, s) == Cardinality({k \in DOMAIN s : s[k] = t})

\* C27: filterSubtitleLike returns the frames it was given, number by
\* number; every frame has at most maxLinesPerFrame lines, each a line of
\* the grouped frame that passes the region, text and aspect tests; and
\* with persistence off, where the result is the per-frame pass itself, no
\* passing line that was left out is strictly wider than a line that was
\* kept.
C27_PerFramePassKeepsWidest ==
    ass.pc = "filtered" =>
        /\ Len(ass.subtitleFrames) = Len(ass.groupedFrames)
        /\ \A i \in DOMAIN ass.subtitleFrames :
             LET in == ass.groupedFrames[i].texts
                 out == ass.subtitleFrames[i].texts
                 c == FilterConfig(ass.env)
             IN  /\ ass.subtitleFrames[i].frameNumber
                        = ass.groupedFrames[i].frameNumber
                 /\ Len(out) <= c.maxLinesPerFrame
                 /\ \A k \in DOMAIN out :
                      /\ TimesIn(out[k], out) <= TimesIn(out[k], in)
                      /\ PassesTests(out[k], i)
                 /\ ~c.requirePersistence =>
                      /\ \A j \in DOMAIN in : \A k \in DOMAIN out :
                           (PassesTests(in[j], i) /\ in[j].width > out[k].width)
                               => TimesIn(in[j], out) = TimesIn(in[j], in)
                      /\ Len(out) < c.maxLinesPerFrame =>
                           \A j \in DOMAIN in :
                               PassesTests(in[j], i)
                                   => TimesIn(in[j], out) = TimesIn(in[j], in)

\* A frame of three passing lines with persistence off: the two widest were
\* kept, the narrowest was cut.
C27_NarrowestCut ==
    /\ ass.pc = "filtered"
    /\ ass.env.requirePersistence = "0"
    /\ ass.env.minChars = "5"
    /\ ass.env.minWords = "1"
    /\ \E i \in DOMAIN ass.groupedFrames :
         /\ ass.groupedFrames[i].texts
                = <<UpperHelloLine, MorningLine, LowBonjourLine>>
         /\ TimesIn(MorningLine, ass.subtitleFrames[i].texts) = 1
         /\ TimesIn(LowBonjourLine, ass.subtitleFrames[i].texts) = 1
         /\ TimesIn(UpperHelloLine, ass.subtitleFrames[i].texts) = 0

\* Whether the lines of s stand in t in the same order.
InOrderOf(s, t) ==
    \E f \in [DOMAIN s -> DOMAIN t] :
        /\ \A a, b \in DOMAIN s : a < b => f[a] < f[b]
        /\ \A a \in DOMAIN s : t[f[a]] = s[a]

\* C29: in every frame the lines filterSubtitleLike keeps stand in the
\* order groupTextsIntoLines gave them, from the top of the frame down.
C29_KeptLinesTopToBottom ==
    ass.pc = "filtered" =>
        \A i \in DOMAIN ass.subtitleFrames :
            InOrderOf(ass.subtitleFrames[i].texts, ass.groupedFrames[i].texts)

====
